---- MODULE Spec2Model ----
(***************************************************************************)
(* Recognition reconciliation engine of Shazam-Tool: the persisted result  *)
(* log (modules/resultFileOperations.py), the rescan and gap-merge passes  *)
(* (modules/trackRecognition.py) and the helpers they use.                 *)
(*                                                                         *)
(* Text.  Every string the log code handles is cut and joined on " - "     *)
(* only, so a text is held as the sequence of the parts that " - "         *)
(* separates: "00:00:10 - FOUND - A - B" is <<"00:00:10","FOUND","A","B">>,*)
(* split(" - ") is the sequence itself and " - ".join is \o.  The empty    *)
(* string is <<"">>.  A part is an atomic string without " - " and without *)
(* leading or trailing blanks, except the padded row numbers of the        *)
(* Tracklist, which strip() is modelled on.                                *)
(***************************************************************************)
EXTENDS Naturals, Integers, Sequences, FiniteSets, TLC

(***************************************************************************)
(* Bounds of the model                                                     *)
(***************************************************************************)
\* segments of the recording, and lines of the Scan Log a pass starts from
MaxSegs == 7
\* segments of such a log that are flagged TIMEOUT or ERROR
MaxFlagged == 1
\* lines of the Scan Log the log functions are applied to
MaxLines == 3
\* segments of a log the validation pass runs over
MaxValSegs == 3
\* entries of a Tracklist the wrong-version detector is applied to
MaxTracks == 4
\* segments of a recording the first scan recognizes
MaxScanned == 2
\* segments of a log two processes rescan at the same time
MaxShared == 2

Max(a, b) == IF a >= b THEN a ELSE b

(***************************************************************************)
(* modules/core/constants.py                                               *)
(***************************************************************************)
SEGMENT_LENGTH == 10000

\* the nine members of the enum; for each of them the value is the name
SegmentStatus ==
    {"FOUND", "NOT_FOUND", "TIMEOUT", "ERROR", "VALIDATION_VALIDATED",
     "VALIDATION_FALSE_POSITIVE", "VALIDATION_UNCERTAIN",
     "VALIDATION_WRONG_VERSION", "FOUND_MERGED"}

\* Evaluating SegmentStatus.<name>.value for the names of a list literal:
\* a name that is no member of the enum raises AttributeError.
AttributeError(names) == \E i \in DOMAIN names : names[i] \notin SegmentStatus

\* the values of a list literal of members
Values(names) == {names[i] : i \in DOMAIN names}

(***************************************************************************)
(* modules/core/helper.py                                                  *)
(***************************************************************************)
Digit == <<"0", "1", "2", "3", "4", "5", "6", "7", "8", "9">>

\* f"{n:02d}" for n < 100
TwoDigits(n) == Digit[(n \div 10) + 1] \o Digit[(n % 10) + 1]

\* str(n) for n < 100
Str(n) == IF n < 10 THEN Digit[n + 1] ELSE TwoDigits(n)

format_timestamp(seconds) ==
    TwoDigits(seconds \div 3600) \o ":" \o TwoDigits((seconds % 3600) \div 60)
        \o ":" \o TwoDigits(seconds % 60)

\* the seconds the model's timestamps can denote: the segment starts and the
\* end of the last segment
SecondsRange ==
    {k * (SEGMENT_LENGTH \div 1000) : k \in 0..(Max(MaxSegs, MaxLines) + 1)}

\* the HH:MM:SS text of each of them
TimestampText == [s \in SecondsRange |-> format_timestamp(s)]

\* parse_timestamp raises ValueError (int() of a non-number) or IndexError
\* (fewer than three fields) on a text that is not HH:MM:SS
WellFormedTimestamp(ts) == \E s \in SecondsRange : TimestampText[s] = ts

\* hours * 3600 + minutes * 60 + seconds of the text
parse_timestamp(ts) == CHOOSE s \in SecondsRange : TimestampText[s] = ts

(***************************************************************************)
(* Lines of the persisted file                                             *)
(***************************************************************************)
EmptyText == <<"">>
TracklistMarker == <<"===== Tracklist =====">>
ScanLogMarker == <<"===== Scan Log =====">>
\* f"===== Scan results for {os.path.basename(audio_file)} ======"
HeaderLine == <<"===== Scan results for mix.mp3 ======">>

\* the row number of a Tracklist line, padded with blanks to three places
PaddedNumber(idx) ==
    IF idx < 10 THEN "  " \o Str(idx)
    ELSE IF idx < 100 THEN " " \o Str(idx)
    ELSE Str(idx)

RowNumbers == 1..(Max(MaxSegs, MaxLines) + 1)
PaddedRow == [n \in RowNumbers |-> PaddedNumber(n)]
RowText == [n \in RowNumbers |-> Str(n)]

\* str.strip() of a part: only the padded row numbers carry blanks
StripPart(part) ==
    IF \E n \in RowNumbers : PaddedRow[n] = part
    THEN RowText[CHOOSE n \in RowNumbers : PaddedRow[n] = part]
    ELSE part

\* line.strip(): blanks go from the two ends of the line; the parts carry
\* none at their right end
strip(line) ==
    [i \in DOMAIN line |-> IF i = 1 THEN StripPart(line[i]) ELSE line[i]]

\* str.isdigit() of a part
isdigit(part) == \E n \in RowNumbers : RowText[n] = part

\* line.startswith("=====")
StartsWithEquals(line) ==
    line[1] \in {HeaderLine[1], TracklistMarker[1], ScanLogMarker[1]}

\* line.startswith("===== Scan results for")
StartsWithScanResults(line) == line[1] = HeaderLine[1]

\* line.startswith("nr - time") or line.startswith("number - time")
StartsWithColumnHeader(line) ==
    Len(line) >= 2 /\ line[1] \in {"nr", "number"} /\ line[2] = "time"

\* " - " in line
HasSeparator(line) == Len(line) >= 2

\* d[key] = value on a dict
Put(d, key, value) == (key :> value) @@ d

(***************************************************************************)
(* modules/resultFileOperations.py                                         *)
(***************************************************************************)
\* the file at result_file_path: os.path.exists and its lines
NoFile == [exists |-> FALSE, lines |-> <<>>]
File(lines) == [exists |-> TRUE, lines |-> lines]

\* the member names the list literals of the module refer to
AnalyzeTrackNames ==
    <<"FOUND", "FOUND_VALIDATED", "FOUND_FALSE_POSITIVE", "FOUND_UNCERTAIN">>
ScanLogTrackNames ==
    <<"FOUND", "FOUND_VALIDATED", "FOUND_FALSE_POSITIVE", "FOUND_UNCERTAIN",
      "FOUND_MERGED">>
TracklistNames == <<"FOUND", "FOUND_VALIDATED", "FOUND_MERGED">>
RescanNames == <<"TIMEOUT", "ERROR">>

NoRescan == [rescan_segments |-> <<>>, max_segment |-> 0]

\* int(timestamp_seconds / (SEGMENT_LENGTH / 1000)) + 1
SegmentNumber(seconds) == (seconds \div (SEGMENT_LENGTH \div 1000)) + 1

\* one turn of the loop of analyze_result_file; stop: the break of line 31
AnalyzeLine(line, acc) ==
    IF line = ScanLogMarker THEN [acc EXCEPT !.in_scan_log = TRUE]
    ELSE IF StartsWithEquals(line) /\ acc.in_scan_log
    THEN [acc EXCEPT !.stop = TRUE]
    ELSE IF acc.in_scan_log /\ HasSeparator(line) /\ ~StartsWithEquals(line)
    THEN IF Len(line) >= 3 /\ AttributeError(AnalyzeTrackNames)
         THEN [acc EXCEPT !.raised = TRUE]
         ELSE IF ~WellFormedTimestamp(line[1]) THEN acc
         ELSE LET segment_num == SegmentNumber(parse_timestamp(line[1]))
                  flagged == line[2] \in Values(RescanNames)
              IN  [acc EXCEPT
                     !.max_segment = Max(@, segment_num),
                     !.rescan_segments =
                         IF flagged THEN Append(@, segment_num) ELSE @]
    ELSE acc

RECURSIVE AnalyzeLines(_, _)
AnalyzeLines(lines, acc) ==
    IF lines = <<>> \/ acc.stop \/ acc.raised THEN acc
    ELSE AnalyzeLines(Tail(lines), AnalyzeLine(strip(Head(lines)), acc))

\* the analysis without the os.path.exists test of line 9: a missing file
\* read as one flagged segment
analyze_missing_as_flagged(f) ==
    IF ~f.exists THEN [rescan_segments |-> <<1>>, max_segment |-> 1]
    ELSE LET acc == AnalyzeLines(f.lines,
                        [rescan_segments |-> <<>>, max_segment |-> 0,
                         in_scan_log |-> FALSE, stop |-> FALSE,
                         raised |-> FALSE])
         IN  IF acc.raised THEN NoRescan
             ELSE [rescan_segments |-> acc.rescan_segments,
                   max_segment |-> acc.max_segment]

\* the analysis that takes every line of the Scan Log for a flagged one
analyze_every_line(f) ==
    IF ~f.exists THEN NoRescan
    ELSE [rescan_segments |->
             [k \in 1..Max(Len(f.lines) - 5, 0) |-> k],
          max_segment |-> Max(Len(f.lines) - 5, 0)]

analyze_result_file(f) ==
    IF ~f.exists THEN NoRescan
    ELSE LET acc == AnalyzeLines(f.lines,
                        [rescan_segments |-> <<>>, max_segment |-> 0,
                         in_scan_log |-> FALSE, stop |-> FALSE,
                         raised |-> FALSE])
         IN  IF acc.raised THEN NoRescan
             ELSE [rescan_segments |-> acc.rescan_segments,
                   max_segment |-> acc.max_segment]

\* the Tracklist branch of read_result_file, lines 99-112
ReadTracklistLine(parts, acc) ==
    IF isdigit(parts[1])
    THEN IF Len(parts) >= 4
         THEN [acc EXCEPT !.track_data =
                 Put(@, parts[2],
                     <<StripPart(parts[3])>> \o SubSeq(parts, 4, Len(parts)))]
         ELSE acc
    ELSE [acc EXCEPT !.track_data =
            Put(@, parts[1], SubSeq(parts, 2, Len(parts)))]

\* the Scan Log branch of read_result_file, lines 113-130
ReadScanLogLine(parts, acc) ==
    IF Len(parts) >= 3 /\ AttributeError(ScanLogTrackNames)
    THEN [acc EXCEPT !.raised = TRUE]
    ELSE IF Len(parts) >= 3 /\ parts[2] \in Values(ScanLogTrackNames)
    THEN [acc EXCEPT !.segments =
            Put(@, parts[1],
                [status |-> parts[2], track |-> SubSeq(parts, 3, Len(parts))])]
    ELSE IF parts[1] \notin DOMAIN acc.segments
    THEN [acc EXCEPT !.segments =
            Put(@, parts[1], [status |-> parts[2], track |-> EmptyText])]
    ELSE [acc EXCEPT !.segments[parts[1]].status = parts[2]]

\* one turn of the loop of read_result_file
ReadLine(line, acc) ==
    IF StartsWithScanResults(line) THEN [acc EXCEPT !.header = line]
    ELSE IF line = TracklistMarker
    THEN [acc EXCEPT !.current_section = "tracklist"]
    ELSE IF line = ScanLogMarker
    THEN [acc EXCEPT !.current_section = "scan_log"]
    ELSE IF HasSeparator(line) /\ ~StartsWithEquals(line)
            /\ ~StartsWithColumnHeader(line)
    THEN IF acc.current_section = "tracklist"
         THEN ReadTracklistLine(line, acc)
         ELSE IF acc.current_section = "scan_log"
         THEN ReadScanLogLine(line, acc)
         ELSE acc
    ELSE acc

RECURSIVE ReadLines(_, _)
ReadLines(lines, acc) ==
    IF lines = <<>> \/ acc.raised THEN acc
    ELSE ReadLines(Tail(lines), ReadLine(strip(Head(lines)), acc))

\* lines 132-138: the Tracklist's tracks go into the segments
MergeTrackData(segments, track_data) ==
    [ts \in DOMAIN segments \cup DOMAIN track_data |->
        IF ts \in DOMAIN track_data
        THEN IF ts \in DOMAIN segments
             THEN [segments[ts] EXCEPT !.track = track_data[ts]]
             ELSE [status |-> "FOUND", track |-> track_data[ts]]
        ELSE segments[ts]]

\* lines 140-146: "Unknown Track" for a FOUND segment without a track
FillMissingTracks(segments) ==
    [ts \in DOMAIN segments |->
        IF segments[ts].track = EmptyText /\ segments[ts].status = "FOUND"
        THEN [segments[ts] EXCEPT !.track = <<"Unknown Track">>]
        ELSE segments[ts]]

\* an exception inside the try leaves what the loop had put into segments
\* and skips the two steps after the loop (except Exception, line 148)
read_result_file(f) ==
    IF ~f.exists THEN [header |-> EmptyText, segments |-> <<>>]
    ELSE LET acc == ReadLines(f.lines,
                        [header |-> EmptyText, segments |-> <<>>,
                         current_section |-> "none", track_data |-> <<>>,
                         raised |-> FALSE])
         IN  [header |-> acc.header,
              segments |->
                 IF acc.raised THEN acc.segments
                 ELSE FillMissingTracks(
                          MergeTrackData(acc.segments, acc.track_data))]

\* sorted(segments.keys(), key=parse_timestamp): the keys by their seconds
RECURSIVE SortedTimestamps(_)
SortedTimestamps(keys) ==
    IF keys = {} THEN <<>>
    ELSE LET first == CHOOSE k \in keys :
                        \A o \in keys : parse_timestamp(k) <= parse_timestamp(o)
         IN  <<first>> \o SortedTimestamps(keys \ {first})

\* one turn of the loop of generate_tracklist_and_log, lines 165-190
GenerateSegment(timestamp, data, acc) ==
    IF AttributeError(ScanLogTrackNames) \/ AttributeError(TracklistNames)
    THEN [acc EXCEPT !.raised = "AttributeError"]
    ELSE LET status == data.status
             track == data.track
             log_entry ==
                 IF status \in Values(ScanLogTrackNames) /\ track # EmptyText
                 THEN <<timestamp, status>> \o track
                 ELSE <<timestamp, status>>
             listed == status \in Values(TracklistNames)
                           /\ track \notin acc.seen_tracks
             artist == IF Len(track) >= 2 THEN track[1] ELSE "Unknown Artist"
             title == IF Len(track) >= 2 THEN Tail(track) ELSE track
         IN  [acc EXCEPT
                !.scan_log = Append(@, log_entry),
                !.tracklist_data =
                    IF listed
                    THEN Append(@, [timestamp |-> timestamp, artist |-> artist,
                                    title |-> title])
                    ELSE @,
                !.seen_tracks = IF listed THEN @ \cup {track} ELSE @]

RECURSIVE GenerateSegments(_, _, _)
GenerateSegments(timestamps, segments, acc) ==
    IF timestamps = <<>> \/ acc.raised # "none" THEN acc
    ELSE GenerateSegments(Tail(timestamps), segments,
             GenerateSegment(Head(timestamps), segments[Head(timestamps)], acc))

\* f"{number} - {item['timestamp']} - {item['artist']} - {item['title']}"
FormatTracklist(tracklist_data) ==
    [idx \in DOMAIN tracklist_data |->
        <<PaddedNumber(idx), tracklist_data[idx].timestamp,
          tracklist_data[idx].artist>> \o tracklist_data[idx].title]

\* raised: the exception that leaves the function, or "none"
generate_tracklist_and_log(segments) ==
    LET start == [raised |-> "none", scan_log |-> <<>>,
                  tracklist_data |-> <<>>, seen_tracks |-> {}]
        acc == IF \E k \in DOMAIN segments : ~WellFormedTimestamp(k)
               THEN [start EXCEPT !.raised = "ValueError"]
               ELSE GenerateSegments(SortedTimestamps(DOMAIN segments),
                                     segments, start)
    IN  [raised |-> acc.raised,
         tracklist |-> FormatTracklist(acc.tracklist_data),
         scan_log |-> acc.scan_log]

\* the lines write_result_file puts into the file
FileLines(header, tracklist, scan_log) ==
    <<header, EmptyText, TracklistMarker>> \o tracklist
        \o <<EmptyText, ScanLogMarker>> \o scan_log

\* generate_tracklist_and_log runs before the file is opened: an exception
\* of it leaves write_result_file with the file as it was
write_result_file(f, header, segments) ==
    LET g == generate_tracklist_and_log(segments)
    IN  IF g.raised # "none" THEN [raised |-> g.raised, file |-> f]
        ELSE [raised |-> "none",
              file |-> File(FileLines(header, g.tracklist, g.scan_log))]

(***************************************************************************)
(* modules/trackRecognition.py: the gap finder and the overwrite           *)
(***************************************************************************)
\* default arguments: max_retries of rescan_timeouts_with_retry,
\* min_consecutive of find_consecutive_not_found_ranges, and the first
\* window_size of sliding_window_merge_recognition
DefaultMaxRetries == 2
DefaultMinConsecutive == 3
FirstWindowSize == 3

\* the loop of find_consecutive_not_found_ranges, lines 239-246
RECURSIVE RangesLoop(_, _, _, _)
RangesLoop(timestamps, segments, min_consecutive, acc) ==
    IF timestamps = <<>> THEN acc
    ELSE LET timestamp == Head(timestamps)
             next ==
                 IF segments[timestamp].status = "NOT_FOUND"
                 THEN [acc EXCEPT
                         !.current_range = Append(@, timestamp)]
                 ELSE [ranges |->
                         IF Len(acc.current_range) >= min_consecutive
                         THEN Append(acc.ranges,
                                  <<acc.current_range[1],
                                    acc.current_range[Len(acc.current_range)],
                                    Len(acc.current_range)>>)
                         ELSE acc.ranges,
                       current_range |-> <<>>]
         IN  RangesLoop(Tail(timestamps), segments, min_consecutive, next)

\* the gap finder without the check of lines 248-250 after the loop
find_ranges_without_last(segments, min_consecutive) ==
    RangesLoop(SortedTimestamps(DOMAIN segments), segments, min_consecutive,
               [ranges |-> <<>>, current_range |-> <<>>]).ranges

\* the ranges as (start_timestamp, end_timestamp, segment_count); the sort
\* of line 235 raises ValueError on a key that is no timestamp
find_consecutive_not_found_ranges(segments, min_consecutive) ==
    LET acc == RangesLoop(SortedTimestamps(DOMAIN segments), segments,
                          min_consecutive,
                          [ranges |-> <<>>, current_range |-> <<>>])
    IN  IF Len(acc.current_range) >= min_consecutive
        THEN Append(acc.ranges,
                 <<acc.current_range[1],
                   acc.current_range[Len(acc.current_range)],
                   Len(acc.current_range)>>)
        ELSE acc.ranges

\* the keys update_segments_with_found_track overwrites
UpdatedTimestamps(segments, start_timestamp, end_timestamp) ==
    {ts \in DOMAIN segments :
        /\ parse_timestamp(start_timestamp) <= parse_timestamp(ts)
        /\ parse_timestamp(ts) <= parse_timestamp(end_timestamp)}

update_segments_with_found_track(segments, start_timestamp, end_timestamp, track_name) ==
    [ts \in DOMAIN segments |->
        IF ts \in UpdatedTimestamps(segments, start_timestamp, end_timestamp)
        THEN [status |-> "FOUND_MERGED", track |-> track_name]
        ELSE segments[ts]]

\* range_timestamps of sliding_window_merge_recognition, lines 285-289
RECURSIVE SelectNotFound(_, _, _, _)
SelectNotFound(timestamps, segments, start_seconds, end_seconds) ==
    IF timestamps = <<>> THEN <<>>
    ELSE LET timestamp == Head(timestamps)
             rest == SelectNotFound(Tail(timestamps), segments,
                                    start_seconds, end_seconds)
         IN  IF /\ start_seconds <= parse_timestamp(timestamp)
                /\ parse_timestamp(timestamp) <= end_seconds
                /\ segments[timestamp].status = "NOT_FOUND"
             THEN <<timestamp>> \o rest
             ELSE rest

RangeTimestamps(segments, start_timestamp, end_timestamp) ==
    SelectNotFound(SortedTimestamps(DOMAIN segments), segments,
                   parse_timestamp(start_timestamp),
                   parse_timestamp(end_timestamp))

\* window_end_timestamp, lines 301-302: the end of the window's last segment
WindowEndTimestamp(window_end) ==
    format_timestamp(parse_timestamp(window_end) + (SEGMENT_LENGTH \div 1000))

\* the two loops of lines 292-295 the other way round: every size at a
\* start before the next start
NextWindowSizeFirst(window_size, start_idx, n) ==
    IF window_size + 1 <= n - start_idx
    THEN [window_size |-> window_size + 1, start_idx |-> start_idx]
    ELSE IF start_idx + 1 <= n - FirstWindowSize
    THEN [window_size |-> FirstWindowSize, start_idx |-> start_idx + 1]
    ELSE [window_size |-> n + 1, start_idx |-> 0]

\* the window after (window_size, start_idx) in the two loops of lines
\* 292-295 over n range timestamps; a window_size above n ends the loops
NextWindow(window_size, start_idx, n) ==
    IF start_idx + 1 <= n - window_size
    THEN [window_size |-> window_size, start_idx |-> start_idx + 1]
    ELSE [window_size |-> window_size + 1, start_idx |-> 0]

(***************************************************************************)
(* modules/shazam/shazamApi.py: what recognize_track can return            *)
(***************************************************************************)
RecognizedTracks == {<<"A", "B">>, <<"C", "D">>}

RecognizerResults ==
    {[status |-> "FOUND", track |-> t] : t \in RecognizedTracks}
        \cup {[status |-> st, track |-> EmptyText] :
                 st \in {"NOT_FOUND", "TIMEOUT", "ERROR"}}

(***************************************************************************)
(* modules/trackValidation.py: the candidates and their validation         *)
(***************************************************************************)
\* threshold of analyze_false_positive_candidates
DefaultThreshold == 3

\* the parts of the model that begin with FOUND
FoundPrefixed ==
    {"FOUND", "FOUND_MERGED", "FOUND_VALIDATED", "FOUND_FALSE_POSITIVE",
     "FOUND_UNCERTAIN"}

\* " - FOUND" in line: a part after the first begins with FOUND
ContainsFound(line) == \E k \in 2..Len(line) : line[k] \in FoundPrefixed

\* the member names of the list of line 49
CountedNames == <<"FOUND", "VALIDATION_VALIDATED">>

NoCandidates == [candidates |-> <<>>, raised |-> FALSE]

\* one turn of the loop of analyze_false_positive_candidates, lines 31-59;
\* order: the tracks in the order track_counts got them
CandidateLine(line, acc) ==
    IF line = ScanLogMarker THEN [acc EXCEPT !.in_scan_log = TRUE]
    ELSE IF StartsWithEquals(line) /\ acc.in_scan_log
    THEN [acc EXCEPT !.stop = TRUE]
    ELSE IF acc.in_scan_log /\ ContainsFound(line) /\ Len(line) >= 3
    THEN LET timestamp == line[1]
             status == line[2]
             track_name == SubSeq(line, 3, Len(line))
         IN  IF AttributeError(CountedNames)
             THEN [acc EXCEPT !.raised = TRUE]
             ELSE IF status \notin Values(CountedNames) THEN acc
             ELSE IF ~WellFormedTimestamp(timestamp)
             THEN [acc EXCEPT !.raised = TRUE]
             ELSE IF track_name \in DOMAIN acc.track_positions
             THEN [acc EXCEPT
                     !.track_positions[track_name] = Append(@, timestamp)]
             ELSE [acc EXCEPT
                     !.track_positions = Put(@, track_name, <<timestamp>>),
                     !.order = Append(@, track_name)]
    ELSE acc

RECURSIVE CandidateLines(_, _)
CandidateLines(lines, acc) ==
    IF lines = <<>> \/ acc.stop \/ acc.raised THEN acc
    ELSE CandidateLines(Tail(lines), CandidateLine(strip(Head(lines)), acc))

\* sorted(track_positions[track_name], key=lambda x: x[1]), a stable sort
RECURSIVE SortedPositions(_)
SortedPositions(positions) ==
    IF positions = <<>> THEN <<>>
    ELSE LET least == CHOOSE i \in DOMAIN positions :
                         \A j \in DOMAIN positions :
                            \/ parse_timestamp(positions[i])
                                   < parse_timestamp(positions[j])
                            \/ parse_timestamp(positions[i])
                                   = parse_timestamp(positions[j]) /\ i <= j
         IN  <<positions[least]>>
                 \o SortedPositions(SubSeq(positions, 1, least - 1)
                        \o SubSeq(positions, least + 1, Len(positions)))

\* the candidate of lines 65-75
Candidate(track_name, track_positions) ==
    LET positions == SortedPositions(track_positions)
    IN  [track |-> track_name,
         count |-> Len(track_positions),
         positions |-> positions,
         start_timestamp |-> positions[1],
         end_timestamp |-> positions[Len(positions)]]

\* candidates.sort(key=lambda x: (x['count'], x['start_timestamp'])): a
\* stable sort; two timestamps HH:MM:SS compare as their seconds do
RECURSIVE SortedCandidates(_)
SortedCandidates(cs) ==
    IF cs = <<>> THEN <<>>
    ELSE LET Key(c) == <<c.count, parse_timestamp(c.start_timestamp)>>
             Less(a, b) == a[1] < b[1] \/ (a[1] = b[1] /\ a[2] < b[2])
             least == CHOOSE i \in DOMAIN cs :
                         \A j \in DOMAIN cs :
                            \/ Less(Key(cs[i]), Key(cs[j]))
                            \/ Key(cs[i]) = Key(cs[j]) /\ i <= j
         IN  <<cs[least]>>
                 \o SortedCandidates(SubSeq(cs, 1, least - 1)
                        \o SubSeq(cs, least + 1, Len(cs)))

\* the tracks of lines 63-76: count <= threshold, in the order of the dict
RECURSIVE SelectCandidates(_, _, _)
SelectCandidates(order, track_positions, limit) ==
    IF order = <<>> THEN <<>>
    ELSE LET rest == SelectCandidates(Tail(order), track_positions, limit)
         IN  IF Len(track_positions[Head(order)]) <= limit
             THEN <<Candidate(Head(order), track_positions[Head(order)])>>
                      \o rest
             ELSE rest

\* the candidates it returns; an exception inside the try gives none
analyze_false_positive_candidates(f, limit) ==
    IF ~f.exists THEN <<>>
    ELSE LET acc == CandidateLines(f.lines,
                        [track_positions |-> <<>>, order |-> <<>>,
                         in_scan_log |-> FALSE, stop |-> FALSE,
                         raised |-> FALSE])
         IN  IF acc.raised THEN <<>>
             ELSE SortedCandidates(
                      SelectCandidates(acc.order, acc.track_positions, limit))

\* modes of validate_segment_with_extended_audio, line 123
Modes == <<"before", "after", "both">>

\* the entry of extended_segments for a result of recognize_track,
\* lines 136-140
ExtendedEntry(result, original_track) ==
    [status |-> result.status, track |-> result.track,
     matches_original |->
        IF result.status = "FOUND" THEN result.track = original_track
        ELSE FALSE]

\* the entry after an exception of the call, lines 150-154
ExtendedError ==
    [status |-> "ERROR", track |-> EmptyText, matches_original |-> FALSE]

\* found_results, matches and different_tracks, lines 157-165: the modes
FoundModes(extended) == {m \in DOMAIN extended : extended[m].status = "FOUND"}
MatchModes(extended) ==
    {m \in FoundModes(extended) : extended[m].matches_original}
DifferentModes(extended) ==
    {m \in FoundModes(extended) : ~extended[m].matches_original}

\* the classification with one match enough to confirm the original
ValidationStatusOneMatch(extended) ==
    IF FoundModes(extended) = {} THEN "NO_EXTENDED_RECOGNITION"
    ELSE IF Cardinality(MatchModes(extended)) >= 1 THEN "CONFIRMED_VALID"
    ELSE IF Cardinality(DifferentModes(extended)) >= 2
    THEN "LIKELY_FALSE_POSITIVE"
    ELSE "UNCERTAIN"

\* validation_status, lines 160-178
ValidationStatus(extended) ==
    IF FoundModes(extended) = {} THEN "NO_EXTENDED_RECOGNITION"
    ELSE IF Cardinality(MatchModes(extended)) >= 2 THEN "CONFIRMED_VALID"
    ELSE IF Cardinality(DifferentModes(extended)) >= 2
    THEN "LIKELY_FALSE_POSITIVE"
    ELSE "UNCERTAIN"

\* the suggestion taken with min in place of max
SuggestedTracksLeast(extended) ==
    LET Count(t) == Cardinality({m \in DifferentModes(extended) :
                                    extended[m].track = t})
        alt_tracks == {extended[m].track : m \in DifferentModes(extended)}
    IN  {t \in alt_tracks : \A o \in alt_tracks : Count(o) >= Count(t)}

\* max(set(alt_tracks), key=alt_tracks.count), line 175: a track no other
\* track of alt_tracks is more frequent than; which one of several, the
\* order of the set decides
SuggestedTracks(extended) ==
    LET Count(t) == Cardinality({m \in DifferentModes(extended) :
                                    extended[m].track = t})
        alt_tracks == {extended[m].track : m \in DifferentModes(extended)}
    IN  {t \in alt_tracks : \A o \in alt_tracks : Count(o) <= Count(t)}

\* no key 'suggested_track' in the result
NoSuggestion == <<>>

\* the results validate_segment_with_extended_audio can return
ValidationResults(candidate, extended) ==
    LET status == ValidationStatus(extended)
    IN  {[original_track |-> candidate.track,
          timestamp |-> candidate.start_timestamp,
          extended_segments |-> extended,
          validation_status |-> status,
          suggested_track |-> s] :
            s \in IF status = "LIKELY_FALSE_POSITIVE"
                  THEN SuggestedTracks(extended)
                  ELSE {NoSuggestion}}

ModeNames == {Modes[k] : k \in DOMAIN Modes}

\* what a mode met: no extended segment (create_extended_segment returned
\* no file, line 129), an exception, or a result of recognize_track
NoEntry == [status |-> "no file", track |-> EmptyText]
Raised == [status |-> "exception", track |-> EmptyText]
ModeOutcomes == {NoEntry, Raised} \cup RecognizerResults

\* extended_segments after the loop of lines 125-154
ExtendedSegments(left, original_track) ==
    [m \in {m \in DOMAIN left : left[m] # NoEntry} |->
        IF left[m] = Raised THEN ExtendedError
        ELSE ExtendedEntry(left[m], original_track)]

\* the results it can return when the modes met what left says
validate_segment_with_extended_audio(candidate, left) ==
    ValidationResults(candidate, ExtendedSegments(left, candidate.track))

\* the status validate_single_file stores for a result, lines 236-259
StoredStatus(validation_status) ==
    IF validation_status = "LIKELY_FALSE_POSITIVE"
    THEN "VALIDATION_FALSE_POSITIVE"
    ELSE IF validation_status = "NO_EXTENDED_RECOGNITION"
    THEN "VALIDATION_FALSE_POSITIVE"
    ELSE IF validation_status = "CONFIRMED_VALID" THEN "VALIDATION_VALIDATED"
    ELSE "VALIDATION_UNCERTAIN"

\* lines 235-259: the entry of the result's timestamp gets the status and
\* the original track, if the map has the timestamp
UpdateValidated(segments, result) ==
    IF result.timestamp \in DOMAIN segments
    THEN [segments EXCEPT ![result.timestamp] =
            [status |-> StoredStatus(result.validation_status),
             track |-> result.original_track]]
    ELSE segments

(***************************************************************************)
(* modules/trackValidation.py: the strings of the wrong-version detector.  *)
(* An artist and a title are compared character by character, so here a    *)
(* string is the sequence of its characters.                               *)
(***************************************************************************)
UpperCase ==
    <<"A", "B", "C", "D", "E", "F", "G", "H", "I", "J", "K", "L", "M",
      "N", "O", "P", "Q", "R", "S", "T", "U", "V", "W", "X", "Y", "Z">>
LowerCase ==
    <<"a", "b", "c", "d", "e", "f", "g", "h", "i", "j", "k", "l", "m",
      "n", "o", "p", "q", "r", "s", "t", "u", "v", "w", "x", "y", "z">>

\* \w of a regular expression
IsWordChar(c) ==
    \/ \E i \in DOMAIN UpperCase : c = UpperCase[i] \/ c = LowerCase[i]
    \/ c \in {"0", "1", "2", "3", "4", "5", "6", "7", "8", "9", "_"}

\* str.lower()
lower(str) ==
    [i \in DOMAIN str |->
        IF \E k \in DOMAIN UpperCase : UpperCase[k] = str[i]
        THEN LowerCase[CHOOSE k \in DOMAIN UpperCase : UpperCase[k] = str[i]]
        ELSE str[i]]

\* str[i:].startswith(pattern), i counted from 1
StartsAt(str, i, pattern) ==
    /\ i + Len(pattern) - 1 <= Len(str)
    /\ SubSeq(str, i, i + Len(pattern) - 1) = pattern

\* str.replace(old, new): the occurrences of old from the left, none
\* overlapping another
RECURSIVE replace(_, _, _)
replace(str, old, new) ==
    IF str = <<>> THEN <<>>
    ELSE IF StartsAt(str, 1, old)
    THEN new \o replace(SubSeq(str, Len(old) + 1, Len(str)), old, new)
    ELSE <<Head(str)>> \o replace(Tail(str), old, new)

\* str.replace for each delimiter of a list in turn
RECURSIVE ReplaceAll(_, _, _)
ReplaceAll(str, delimiters, new) ==
    IF delimiters = <<>> THEN str
    ELSE ReplaceAll(replace(str, Head(delimiters), new), Tail(delimiters), new)

\* str.split(',')
RECURSIVE split(_, _)
split(str, sep) ==
    IF \E i \in DOMAIN str : str[i] = sep
    THEN LET at == CHOOSE i \in DOMAIN str :
                      str[i] = sep /\ \A j \in 1..(i - 1) : str[j] # sep
         IN  <<SubSeq(str, 1, at - 1)>>
                 \o split(SubSeq(str, at + 1, Len(str)), sep)
    ELSE <<str>>

\* str.strip(): the blanks at the two ends go
RECURSIVE StripBlanks(_)
StripBlanks(str) ==
    IF str = <<>> THEN <<>>
    ELSE IF Head(str) = " " THEN StripBlanks(Tail(str))
    ELSE IF str[Len(str)] = " " THEN StripBlanks(SubSeq(str, 1, Len(str) - 1))
    ELSE str

\* the delimiters of get_primary_artist, line 309
PrimaryDelimiters ==
    << <<"f", "e", "a", "t", ".">>, <<"f", "e", "a", "t">>,
       <<"f", "e", "a", "t", "u", "r", "i", "n", "g">>,
       <<" ", "&", " ">>, <<" ", "a", "n", "d", " ">>,
       <<" ", "w", "i", "t", "h", " ">> >>

\* the delimiters of normalize_artist, line 332
ArtistDelimiters ==
    << <<"f", "e", "a", "t", ".">>, <<"f", "e", "a", "t">>,
       <<"f", "e", "a", "t", "u", "r", "i", "n", "g">>,
       <<" ", "a", "n", "d", " ">>, <<" ", "w", "i", "t", "h", " ">> >>

\* the artist credited last, where get_primary_artist takes the first
get_last_artist(artist) ==
    LET normalized == ReplaceAll(lower(artist), PrimaryDelimiters, <<",">>)
        artists == split(normalized, ",")
    IN  StripBlanks(artists[Len(artists)])

get_primary_artist(artist) ==
    LET normalized == ReplaceAll(lower(artist), PrimaryDelimiters, <<",">>)
        artists == split(normalized, ",")
    IN  StripBlanks(artists[1])

normalize_artist(artist) ==
    StripBlanks(ReplaceAll(lower(artist), ArtistDelimiters, <<" ", "&", " ">>))

\* re.sub(r'\([^)]*\)', '', str), and the same for [ and ]: from an opening
\* character to the first closing one after it
RECURSIVE RemoveEnclosed(_, _, _)
RemoveEnclosed(str, open, close) ==
    IF str = <<>> THEN <<>>
    ELSE IF Head(str) = open /\ \E i \in 2..Len(str) : str[i] = close
    THEN LET to == CHOOSE i \in 2..Len(str) :
                      str[i] = close /\ \A j \in 2..(i - 1) : str[j] # close
         IN  RemoveEnclosed(SubSeq(str, to + 1, Len(str)), open, close)
    ELSE <<Head(str)>> \o RemoveEnclosed(Tail(str), open, close)

\* re.sub(f'\\b{suffix}\\b', '', str, flags=re.IGNORECASE) from place i on:
\* the suffix as a whole word, whatever its case
RECURSIVE RemoveWord(_, _, _)
RemoveWord(str, i, suffix) ==
    IF i > Len(str) THEN <<>>
    ELSE IF /\ StartsAt(lower(str), i, lower(suffix))
            /\ i = 1 \/ ~IsWordChar(str[i - 1])
            /\ i + Len(suffix) > Len(str) \/ ~IsWordChar(str[i + Len(suffix)])
    THEN RemoveWord(str, i + Len(suffix), suffix)
    ELSE <<str[i]>> \o RemoveWord(str, i + 1, suffix)

\* the suffixes of normalize_track_title, line 354
Suffixes ==
    << <<"V", "I", "P">>, <<"L", "i", "v", "e">>,
       <<"B", "o", "o", "t", "l", "e", "g">>, <<"P", "r", "o", "m", "o">>,
       <<"E", "d", "i", "t">>, <<"M", "i", "x">>,
       <<"V", "e", "r", "s", "i", "o", "n">>, <<"R", "e", "m", "i", "x">> >>

RECURSIVE RemoveWords(_, _)
RemoveWords(str, suffixes) ==
    IF suffixes = <<>> THEN str
    ELSE RemoveWords(RemoveWord(str, 1, Head(suffixes)), Tail(suffixes))

\* re.sub(r'\s+', ' ', str): one blank for every run of blanks
RECURSIVE CollapseBlanks(_)
CollapseBlanks(str) ==
    IF str = <<>> THEN <<>>
    ELSE IF Head(str) = " " /\ Len(str) >= 2 /\ str[2] = " "
    THEN CollapseBlanks(Tail(str))
    ELSE <<Head(str)>> \o CollapseBlanks(Tail(str))

normalize_track_title(title) ==
    StripBlanks(CollapseBlanks(
        RemoveWords(RemoveEnclosed(RemoveEnclosed(title, "(", ")"), "[", "]"),
                    Suffixes)))

\* the size of the longest block a[i:i+k] = b[j:j+k] that begins at i and j
RECURSIVE BlockSize(_, _, _, _)
BlockSize(a, b, i, j) ==
    IF i > Len(a) \/ j > Len(b) THEN 0
    ELSE IF a[i] # b[j] THEN 0
    ELSE 1 + BlockSize(a, b, i + 1, j + 1)

\* the longest block that begins at i in a: the one earliest in b
LongestAt(a, b, i) ==
    LET blocks == {<<i, j, BlockSize(a, b, i, j)>> : j \in DOMAIN b}
    IN  CHOOSE m \in blocks :
           \A o \in blocks : o[3] < m[3] \/ (o[3] = m[3] /\ m[2] <= o[2])

\* SequenceMatcher.find_longest_match over two whole strings: the longest
\* block a[i:i+k] = b[j:j+k], the one earliest in a, then earliest in b
LongestMatch(a, b) ==
    IF a = <<>> \/ b = <<>> THEN <<1, 1, 0>>
    ELSE LET blocks == {LongestAt(a, b, i) : i \in DOMAIN a}
         IN  CHOOSE m \in blocks :
                \A o \in blocks : o[3] < m[3] \/ (o[3] = m[3] /\ m[1] <= o[1])

\* the sum of the sizes of SequenceMatcher.get_matching_blocks: the longest
\* block, and the same to its left and to its right
RECURSIVE MatchingSize(_, _)
MatchingSize(a, b) ==
    LET m == LongestMatch(a, b)
    IN  IF m[3] = 0 THEN 0
        ELSE m[3]
               + MatchingSize(SubSeq(a, 1, m[1] - 1), SubSeq(b, 1, m[2] - 1))
               + MatchingSize(SubSeq(a, m[1] + m[3], Len(a)),
                              SubSeq(b, m[2] + m[3], Len(b)))

\* SequenceMatcher(None, str1.lower(), str2.lower()).ratio() as the fraction
\* 2 * matches / (len(str1) + len(str2)), 1 for two empty strings
calculate_fuzzy_similarity(str1, str2) ==
    IF Len(str1) + Len(str2) = 0 THEN <<1, 1>>
    ELSE <<2 * MatchingSize(lower(str1), lower(str2)), Len(str1) + Len(str2)>>

\* the thresholds of detect_wrong_version_pairs, lines 378-381: 0.85
ThresholdPercent == 85

\* similarity >= threshold
AtLeastThreshold(similarity) ==
    similarity[1] * 100 >= ThresholdPercent * similarity[2]

(***************************************************************************)
(* modules/trackValidation.py: the wrong-version detector and resolver     *)
(***************************************************************************)
\* the characters of the parts that artists and titles are made of
Spelling ==
    ("A" :> <<"A">>) @@ ("B" :> <<"B">>) @@ ("C" :> <<"C">>)
        @@ ("D" :> <<"D">>) @@ ("E" :> <<"E">>) @@ ("F" :> <<"F">>)
        @@ ("B (VIP)" :> <<"B", " ", "(", "V", "I", "P", ")">>)
        @@ ("D (VIP)" :> <<"D", " ", "(", "V", "I", "P", ")">>)
        @@ ("Ace" :> <<"A", "c", "e">>) @@ ("Aces" :> <<"A", "c", "e", "s">>)
        @@ ("Ace feat. Bo" :>
              <<"A", "c", "e", " ", "f", "e", "a", "t", ".", " ", "B", "o">>)
        @@ ("Go" :> <<"G", "o">>) @@ ("Lane" :> <<"L", "a", "n", "e">>)
        @@ ("Line" :> <<"L", "i", "n", "e">>)
        @@ ("Unknown Artist" :>
              <<"U", "n", "k", "n", "o", "w", "n", " ",
                "A", "r", "t", "i", "s", "t">>)
        @@ ("Unknown Track" :>
              <<"U", "n", "k", "n", "o", "w", "n", " ",
                "T", "r", "a", "c", "k">>)
        @@ ("" :> <<>>)

\* the characters of a text: those of its parts, " - " between two parts
RECURSIVE Chars(_)
Chars(text) ==
    IF Len(text) = 1 THEN Spelling[text[1]]
    ELSE Spelling[text[1]] \o <<" ", "-", " ">> \o Chars(Tail(text))

\* (a + b) / 2 of two fractions
Average(a, b) == <<a[1] * b[2] + b[1] * a[2], 2 * a[2] * b[2]>>

NoPair == <<>>

\* the loop body trying the combined string before the two other methods
DetectPairCombinedFirst(track1, track2) ==
    LET artist1 == Chars(track1.artist)
        artist2 == Chars(track2.artist)
        primary1 == get_primary_artist(artist1)
        primary2 == get_primary_artist(artist2)
        title1_norm == normalize_track_title(Chars(track1.title))
        title2_norm == normalize_track_title(Chars(track2.title))
        title_similarity == calculate_fuzzy_similarity(title1_norm, title2_norm)
        artist1_norm == normalize_artist(artist1)
        artist2_norm == normalize_artist(artist2)
        artist_similarity ==
            calculate_fuzzy_similarity(artist1_norm, artist2_norm)
        combined1 == artist1_norm \o <<" ", "-", " ">> \o title1_norm
        combined2 == artist2_norm \o <<" ", "-", " ">> \o title2_norm
        combined_similarity == calculate_fuzzy_similarity(combined1, combined2)
    IN  IF track1.artist = track2.artist /\ track1.title = track2.title
        THEN NoPair
        ELSE IF AtLeastThreshold(combined_similarity)
        THEN <<"combined_fuzzy", combined_similarity>>
        ELSE IF primary1 = primary2 /\ AtLeastThreshold(title_similarity)
        THEN <<"primary_artist_exact+track_fuzzy", title_similarity>>
        ELSE IF /\ AtLeastThreshold(artist_similarity)
                /\ AtLeastThreshold(title_similarity)
        THEN <<"artist_fuzzy+track_fuzzy",
               Average(artist_similarity, title_similarity)>>
        ELSE NoPair

\* one turn of the loop of detect_wrong_version_pairs, lines 408-461: the
\* method that detects the pair and its similarity, or no pair
DetectPair(track1, track2) ==
    LET artist1 == Chars(track1.artist)
        artist2 == Chars(track2.artist)
        primary1 == get_primary_artist(artist1)
        primary2 == get_primary_artist(artist2)
        title1_norm == normalize_track_title(Chars(track1.title))
        title2_norm == normalize_track_title(Chars(track2.title))
        title_similarity == calculate_fuzzy_similarity(title1_norm, title2_norm)
        artist1_norm == normalize_artist(artist1)
        artist2_norm == normalize_artist(artist2)
        artist_similarity ==
            calculate_fuzzy_similarity(artist1_norm, artist2_norm)
        combined1 == artist1_norm \o <<" ", "-", " ">> \o title1_norm
        combined2 == artist2_norm \o <<" ", "-", " ">> \o title2_norm
        combined_similarity == calculate_fuzzy_similarity(combined1, combined2)
    IN  IF track1.artist = track2.artist /\ track1.title = track2.title
        THEN NoPair
        ELSE IF primary1 = primary2 /\ AtLeastThreshold(title_similarity)
        THEN <<"primary_artist_exact+track_fuzzy", title_similarity>>
        ELSE IF /\ AtLeastThreshold(artist_similarity)
                /\ AtLeastThreshold(title_similarity)
        THEN <<"artist_fuzzy+track_fuzzy",
               Average(artist_similarity, title_similarity)>>
        ELSE IF AtLeastThreshold(combined_similarity)
        THEN <<"combined_fuzzy", combined_similarity>>
        ELSE NoPair

\* the tracks the detector is applied to, and what the loop body gives
\* for every two of them
DetectorTracks ==
    {<<"A", "B">>, <<"A", "B (VIP)">>, <<"C", "D">>, <<"C", "D (VIP)">>,
     <<"E", "F">>, <<"Ace", "Go">>, <<"Aces", "Go">>, <<"Ace feat. Bo", "Go">>,
     <<"Ace", "Lane">>, <<"Ace", "Line">>}

DetectTable ==
    [a \in DetectorTracks |-> [b \in DetectorTracks |->
        DetectPair([artist |-> <<a[1]>>, title |-> Tail(a)],
                   [artist |-> <<b[1]>>, title |-> Tail(b)])]]

\* the loop body for two entries of tracklist_data; every entry is one of
\* DetectorTracks, so the body is looked up where it was computed once
Detected(track1, track2) ==
    LET a == track1.artist \o track1.title
        b == track2.artist \o track2.title
    IN  DetectTable[a][b]

\* the detector comparing every entry with every later one
RECURSIVE DetectAllFrom(_, _, _)
DetectAllFrom(tracklist_data, i, j) ==
    IF i > Len(tracklist_data) - 2 THEN <<>>
    ELSE IF j > Len(tracklist_data) - 1
    THEN DetectAllFrom(tracklist_data, i + 1, i + 2)
    ELSE LET found == Detected(tracklist_data[i + 1], tracklist_data[j + 1])
             rest == DetectAllFrom(tracklist_data, i, j + 1)
         IN  IF found = NoPair THEN rest
             ELSE << <<i, j, found[1], found[2]>> >> \o rest

\* the loop of lines 406-461 from index i on; i and j = i + 1 count from 0
RECURSIVE DetectFrom(_, _)
DetectFrom(tracklist_data, i) ==
    IF i > Len(tracklist_data) - 2 THEN <<>>
    ELSE LET j == i + 1
             found == Detected(tracklist_data[i + 1], tracklist_data[j + 1])
             rest == DetectFrom(tracklist_data, i + 1)
         IN  IF found = NoPair THEN rest
             ELSE << <<i, j, found[1], found[2]>> >> \o rest

detect_all_pairs(tracklist_data) == DetectAllFrom(tracklist_data, 0, 1)

detect_wrong_version_pairs(tracklist_data) == DetectFrom(tracklist_data, 0)

\* tracklist_data of validate_wrong_versions, lines 547-559:
\* track_line.split(' - ', 3) of the lines of four parts or more
RECURSIVE TracklistData(_)
TracklistData(tracklist) ==
    IF tracklist = <<>> THEN <<>>
    ELSE LET parts == Head(tracklist)
         IN  IF Len(parts) >= 4
             THEN <<[timestamp |-> parts[2], artist |-> <<parts[3]>>,
                     title |-> SubSeq(parts, 4, Len(parts))]>>
                      \o TracklistData(Tail(tracklist))
             ELSE TracklistData(Tail(tracklist))

\* f"{track['artist']} - {track['title']}"
FullTrack(track) == track.artist \o track.title

\* the statuses of line 595
RelatedStatuses == {"FOUND", "VALIDATION_VALIDATED"}

\* related_segments, lines 588-603, sorted by parse_timestamp: the loop
\* reads the entries that updated_segments shares with file_data
RelatedSegments(segments, track1_full, track2_full) ==
    SortedTimestamps({ts \in DOMAIN segments :
        /\ segments[ts].track \in {track1_full, track2_full}
        /\ segments[ts].status \in RelatedStatuses})

\* what resolve_wrong_version_with_shazam returns for what
\* create_extended_segment and recognize_track give, lines 482-526
Resolution(result) ==
    IF result.status = "FOUND"
    THEN [status |-> "FOUND", track |-> result.track]
    ELSE [status |-> result.status, track |-> EmptyText]

\* no extended segment, or an exception: lines 490-492 and 524-526
ResolutionError == [status |-> "ERROR", track |-> EmptyText]

ResolutionOutcomes ==
    {Resolution(result) : result \in RecognizerResults}
        \cup {ResolutionError}

\* lines 627-638: the related segments get their new status
MarkVersions(segments, related_segments, correct_track) ==
    [ts \in DOMAIN segments |->
        IF \E k \in DOMAIN related_segments : related_segments[k] = ts
        THEN [segments[ts] EXCEPT !.status =
                 IF segments[ts].track = correct_track
                 THEN "VALIDATION_VALIDATED"
                 ELSE "VALIDATION_WRONG_VERSION"]
        ELSE segments[ts]]

\* the loop of lines 581-640 from pair k on, with one resolution for every
\* pair; requests: the spans asked of resolve_wrong_version_with_shazam
RECURSIVE ResolvePairs(_, _, _, _, _)
ResolvePairs(detected_pairs, k, tracklist_data, outcomes, acc) ==
    IF k > Len(detected_pairs) THEN acc
    ELSE LET track1 == tracklist_data[detected_pairs[k][1] + 1]
             track2 == tracklist_data[detected_pairs[k][2] + 1]
             related_segments ==
                 RelatedSegments(acc.segments, FullTrack(track1),
                                 FullTrack(track2))
             request ==
                 [pair |-> k,
                  related_segments |-> related_segments,
                  start_timestamp |-> related_segments[1],
                  end_timestamp |-> related_segments[Len(related_segments)],
                  resolution |-> outcomes[k]]
         IN  IF related_segments = <<>>
             THEN ResolvePairs(detected_pairs, k + 1, tracklist_data,
                               outcomes, acc)
             ELSE ResolvePairs(detected_pairs, k + 1, tracklist_data, outcomes,
                      [segments |->
                          IF outcomes[k].status = "FOUND"
                          THEN MarkVersions(acc.segments, related_segments,
                                            outcomes[k].track)
                          ELSE acc.segments,
                       requests |-> Append(acc.requests, request)])

(***************************************************************************)
(* The state                                                               *)
(***************************************************************************)
VARIABLES
    disk,              \* the result file at output_filename
    pc,                \* where the running pass or function stands
    exc,               \* the exception that left it, or "none"
    ret,               \* what it returned: "True", "False" or "none"
    entries,           \* the segments the file was first made of
    garbage_at,        \* where its Scan Log holds a malformed line (0: none)
    file_data,         \* file_data of the pass: header and segments
    gen,               \* what generate_tracklist_and_log returned
    rescan_info,       \* what analyze_result_file returned
    not_found_ranges,  \* what find_consecutive_not_found_ranges returned
    min_consecutive,   \* its second argument
    first,             \* the file after the first write of a round trip
    retry_count,       \* rescan_timeouts_with_retry
    improvements_made, \* of the rescan and the gap-merge pass
    todo,              \* the flagged segment numbers the round still visits
    range_i,           \* the range process_not_found_segments is at
    window,            \* window_size and start_idx of the sliding window
    calls,             \* the windows tried in this pass, in order
    threshold,         \* validate_single_file: its third argument
    candidates,        \* what analyze_false_positive_candidates returned
    cand_i,            \* the candidate the validation is at
    last_result,       \* result: what validating the last candidate, or
                       \* recognizing the last flagged segment, returned
    updated_segments,  \* the segment map the pass changes and writes
    wrong_versions,    \* how validate_wrong_versions ended: "none" if not run
    requests,          \* the spans it asked the recognizer to resolve
    wv_tracklist,      \* tracklist_data of the wrong-version detector
    wv_pairs,          \* what detect_wrong_version_pairs returned
    attempt,           \* recognize_track: the attempt of its loop
    attempts,          \* how the attempts of the call ended, in order
    in_flight,         \* the calls of recognize_track not yet returned
    invocations        \* the passes of two processes on the same file

vars ==
    <<disk, pc, exc, ret, entries, garbage_at, file_data, gen, rescan_info,
      not_found_ranges, min_consecutive, first, retry_count,
      improvements_made, todo, range_i, window, calls, threshold, candidates,
      cand_i, last_result, updated_segments, wrong_versions, requests,
      wv_tracklist, wv_pairs, attempt, attempts, in_flight, invocations>>

\* what a pass keeps between its steps
passVars ==
    <<file_data, rescan_info, not_found_ranges, retry_count,
      improvements_made, todo, range_i, window, calls>>

\* what the log functions of SpecLog return
logVars == <<gen, first, min_consecutive>>

inputVars == <<entries, garbage_at>>

\* what a call of recognize_track keeps, and the processes beside this one
callVars == <<attempt, attempts, in_flight, invocations>>

\* what the validation pass keeps between its steps
valVars ==
    <<threshold, candidates, cand_i, last_result, updated_segments,
      wrong_versions, requests, wv_tracklist, wv_pairs>>

NoResult == <<>>
NoFileData == [header |-> EmptyText, segments |-> <<>>]
NoGen == [raised |-> "none", tracklist |-> <<>>, scan_log |-> <<>>]
FirstWindow == [window_size |-> FirstWindowSize, start_idx |-> 0]

(***************************************************************************)
(* The logs a run starts from: a recording cut into segments of            *)
(* SEGMENT_LENGTH, segment i at (i - 1) * 10 s, persisted in the format    *)
(* of the file: a header, the Tracklist of the first occurrences of the    *)
(* matched tracks, and a Scan Log line "timestamp - status[ - track]" per  *)
(* segment, the track on the lines of a matched status.                    *)
(***************************************************************************)
Tracks == {<<"A", "B">>, <<"C", "D">>}
MatchedKind == {"FOUND", "FOUND_MERGED", "VALIDATION_VALIDATED"}
GarbageLine == <<"garbage line">>

TimestampOf(i) == TimestampText[(i - 1) * (SEGMENT_LENGTH \div 1000)]

\* every status with the tracks it is stored with
LogEntries ==
    {[status |-> st, track |-> EmptyText] :
        st \in {"NOT_FOUND", "TIMEOUT", "ERROR"}}
    \cup {[status |-> "FOUND", track |-> t] : t \in Tracks}
    \cup {[status |-> st, track |-> <<"A", "B">>] :
            st \in SegmentStatus \ {"NOT_FOUND", "TIMEOUT", "ERROR", "FOUND"}}

\* the statuses the rescan and the gap-merge pass look at
PassEntries ==
    {[status |-> st, track |-> EmptyText] :
        st \in {"NOT_FOUND", "TIMEOUT", "ERROR"}}
    \cup {[status |-> "FOUND", track |-> <<"A", "B">>]}

SeqsUpTo(S, n) == UNION {[1..k -> S] : k \in 0..n}

\* the logs of up to MaxSegs segments, MaxFlagged of them TIMEOUT or ERROR
PassLogs ==
    {es \in SeqsUpTo(PassEntries, MaxSegs) :
        Cardinality({i \in DOMAIN es :
                        es[i].status \in {"TIMEOUT", "ERROR"}}) <= MaxFlagged}

\* the segment map of a list of entries
SegmentsOf(es) == [ts \in {TimestampOf(i) : i \in DOMAIN es} |->
                      es[CHOOSE i \in DOMAIN es : TimestampOf(i) = ts]]

PersistedLine(es, i) ==
    IF es[i].status \in MatchedKind /\ es[i].track # EmptyText
    THEN <<TimestampOf(i), es[i].status>> \o es[i].track
    ELSE <<TimestampOf(i), es[i].status>>

\* the segments whose track the Tracklist lists: the first of each track
ListedAt(es) ==
    {i \in DOMAIN es :
        /\ es[i].status \in MatchedKind
        /\ \A j \in 1..(i - 1) :
              ~(es[j].status \in MatchedKind /\ es[j].track = es[i].track)}

RECURSIVE PersistedTracklist(_, _, _)
PersistedTracklist(es, i, idx) ==
    IF i > Len(es) THEN <<>>
    ELSE IF i \in ListedAt(es)
    THEN <<(<<PaddedNumber(idx), TimestampOf(i)>> \o es[i].track)>>
             \o PersistedTracklist(es, i + 1, idx + 1)
    ELSE PersistedTracklist(es, i + 1, idx)

\* the Scan Log, with a malformed line put before line g (0: none)
PersistedScanLog(es, g) ==
    LET lines == [i \in DOMAIN es |-> PersistedLine(es, i)]
    IN  IF g = 0 THEN lines
        ELSE SubSeq(lines, 1, g - 1) \o <<GarbageLine>>
                 \o SubSeq(lines, g, Len(lines))

PersistedFile(es, g) ==
    File(FileLines(HeaderLine, PersistedTracklist(es, 1, 1),
                   PersistedScanLog(es, g)))

(***************************************************************************)
(* SpecLog: the functions of resultFileOperations.py and the gap finder,   *)
(* applied to a persisted log and to its segment map                       *)
(***************************************************************************)
Idle ==
    /\ pc = "idle" /\ exc = "none" /\ ret = "none"
    /\ file_data = NoFileData /\ gen = NoGen /\ rescan_info = NoRescan
    /\ not_found_ranges = <<>> /\ min_consecutive = DefaultMinConsecutive
    /\ first = NoFile /\ retry_count = 0 /\ improvements_made = FALSE
    /\ todo = <<>> /\ range_i = 0 /\ window = FirstWindow /\ calls = <<>>
    /\ threshold = DefaultThreshold /\ candidates = <<>> /\ cand_i = 0
    /\ last_result = NoResult /\ updated_segments = <<>>
    /\ wrong_versions = "none" /\ requests = <<>>
    /\ attempt = 0 /\ attempts = <<>> /\ in_flight = 0 /\ invocations = <<>>
    /\ wv_tracklist = <<>> /\ wv_pairs = <<>>

InitLog ==
    /\ entries \in SeqsUpTo(LogEntries, MaxLines)
    /\ garbage_at \in 0..(Len(entries) + 1)
    /\ disk = PersistedFile(entries, garbage_at)
    /\ Idle

\* generate_tracklist_and_log(segments)
Generate ==
    /\ pc = "idle"
    /\ gen' = generate_tracklist_and_log(SegmentsOf(entries))
    /\ exc' = gen'.raised
    /\ pc' = "generated"
    /\ UNCHANGED <<disk, ret, inputVars, callVars, valVars, passVars, first,
                   min_consecutive>>

\* write_result_file(path, header, segments), first write of a round trip
Write ==
    /\ pc = "idle"
    /\ LET w == write_result_file(disk, HeaderLine, SegmentsOf(entries))
       IN  /\ disk' = w.file
           /\ first' = w.file
           /\ exc' = w.raised
           /\ pc' = "written"
    /\ UNCHANGED <<ret, inputVars, callVars, valVars, passVars, gen, min_consecutive>>

\* read_result_file(path), of the file as persisted or as just written
Read ==
    /\ pc = "idle" \/ (pc = "written" /\ exc = "none")
    /\ file_data' = read_result_file(disk)
    /\ pc' = IF pc = "written" THEN "read_back" ELSE "read"
    /\ UNCHANGED <<disk, exc, ret, inputVars, callVars, valVars, rescan_info,
                   not_found_ranges,
                   retry_count, improvements_made, todo, range_i, window,
                   calls, logVars>>

\* write_result_file of what was read back: the second write of a round trip
WriteBack ==
    /\ pc = "read_back"
    /\ LET w == write_result_file(disk, file_data.header, file_data.segments)
       IN  /\ disk' = w.file
           /\ exc' = w.raised
           /\ pc' = "round_trip"
    /\ UNCHANGED <<ret, inputVars, callVars, valVars, passVars, logVars>>

\* analyze_result_file(path)
Analyze ==
    /\ pc = "idle"
    /\ rescan_info' = analyze_result_file(disk)
    /\ pc' = "analyzed"
    /\ UNCHANGED <<disk, exc, ret, inputVars, callVars, valVars, file_data,
                   not_found_ranges,
                   retry_count, improvements_made, todo, range_i, window,
                   calls, logVars>>

\* find_consecutive_not_found_ranges(segments, min_consecutive)
FindRanges ==
    /\ pc = "idle"
    /\ \E m \in 1..(Len(entries) + 1) :
          /\ min_consecutive' = m
          /\ not_found_ranges' =
                find_consecutive_not_found_ranges(SegmentsOf(entries), m)
    /\ pc' = "ranges"
    /\ UNCHANGED <<disk, exc, ret, inputVars, callVars, valVars, file_data, rescan_info,
                   retry_count, improvements_made, todo, range_i, window,
                   calls, gen, first>>

NextLog == Generate \/ Write \/ Read \/ WriteBack \/ Analyze \/ FindRanges

SpecLog == InitLog /\ [][NextLog]_vars

(***************************************************************************)
(* SpecRanges: the gap finder alone, over the segment maps of longer logs  *)
(***************************************************************************)
InitRanges ==
    /\ entries \in PassLogs
    /\ garbage_at = 0
    /\ disk = PersistedFile(entries, 0)
    /\ Idle

NextRanges == FindRanges

SpecRanges == InitRanges /\ [][NextRanges]_vars

(***************************************************************************)
(* Spec: the passes of trackRecognition.py over the persisted log          *)
(***************************************************************************)
Init ==
    /\ entries \in PassLogs
    /\ garbage_at = 0
    /\ disk \in {PersistedFile(entries, 0)}
                    \cup (IF entries = <<>> THEN {NoFile} ELSE {})
    /\ Idle

\* the files segment_audio leaves in AUDIO_SEGMENTS_DIR: one per segment of
\* the recording, or none when it could not read the audio file
TmpFiles == {0, Len(entries)}

\* the loop visiting every segment file, flagged or not
VisitedAll(idx, n, rescan_segments) == [k \in 1..(n - idx + 1) |-> idx + k - 1]

\* the flagged segment numbers the loop of lines 192-194 visits, in order
RECURSIVE Visited(_, _, _)
Visited(idx, n, rescan_segments) ==
    IF idx > n THEN <<>>
    ELSE IF \E k \in DOMAIN rescan_segments : rescan_segments[k] = idx
    THEN <<idx>> \o Visited(idx + 1, n, rescan_segments)
    ELSE Visited(idx + 1, n, rescan_segments)

\* rescan_timeouts_with_retry is called
StartRescan ==
    /\ pc = "idle"
    /\ pc' = "rescan_round"
    /\ retry_count' = 0
    /\ improvements_made' = FALSE
    /\ UNCHANGED <<disk, exc, ret, inputVars, callVars, valVars, file_data, rescan_info,
                   not_found_ranges, todo, range_i, window, calls, logVars>>

\* the head of its loop, lines 168-189: the check of the log, the read and
\* the segmentation
RescanRound ==
    /\ pc = "rescan_round"
    /\ LET info == analyze_result_file(disk)
       IN  IF retry_count >= DefaultMaxRetries \/ info.rescan_segments = <<>>
           THEN /\ pc' = "done"
                /\ ret' = IF improvements_made THEN "True" ELSE "False"
                /\ UNCHANGED <<file_data, rescan_info, todo>>
           ELSE /\ rescan_info' = info
                /\ file_data' = read_result_file(disk)
                /\ \E n \in TmpFiles :
                      todo' = Visited(1, n, info.rescan_segments)
                /\ pc' = "rescan_segment"
                /\ ret' = ret
    /\ UNCHANGED <<disk, exc, inputVars, callVars, valVars, not_found_ranges,
                   retry_count,
                   improvements_made, range_i, window, calls, logVars>>

\* the update writing the Recognizer's answer over every entry, a TIMEOUT
\* too
RescanEntryAlways(segments, timestamp, result) ==
    Put(segments, timestamp, [status |-> result.status, track |-> result.track])

\* lines 204-206: the entry of the segment after the Recognizer's answer
RescanEntry(segments, timestamp, result) ==
    IF result.status # "TIMEOUT"
    THEN Put(segments, timestamp,
             [status |-> result.status, track |-> result.track])
    ELSE segments

\* one flagged segment, lines 196-217: the Recognizer's answer, or an
\* exception of the call, which the loop passes over
RescanSegment ==
    /\ pc = "rescan_segment"
    /\ todo # <<>>
    /\ LET timestamp ==
               format_timestamp((Head(todo) - 1) * (SEGMENT_LENGTH \div 1000))
       IN  \/ \E result \in RecognizerResults :
                /\ last_result' = result
                /\ file_data' =
                      [file_data EXCEPT !.segments =
                          RescanEntry(@, timestamp, result)]
                /\ improvements_made' =
                      IF result.status # "TIMEOUT" THEN TRUE
                      ELSE improvements_made
           \/ /\ last_result' = Raised
              /\ UNCHANGED <<file_data, improvements_made>>
    /\ todo' = Tail(todo)
    /\ UNCHANGED <<disk, pc, exc, ret, inputVars, callVars, rescan_info,
                   not_found_ranges, retry_count, range_i, window, calls,
                   logVars, threshold, candidates, cand_i, updated_segments,
                   wrong_versions, requests, wv_tracklist, wv_pairs>>

\* the end of the round, lines 219-224: the log is written
RescanWrite ==
    /\ pc = "rescan_segment"
    /\ todo = <<>>
    /\ LET w == write_result_file(disk, file_data.header, file_data.segments)
       IN  /\ disk' = w.file
           /\ exc' = w.raised
           /\ IF w.raised = "none"
              THEN pc' = "rescan_round" /\ retry_count' = retry_count + 1
              ELSE pc' = "raised" /\ retry_count' = retry_count
    /\ UNCHANGED <<ret, inputVars, callVars, valVars, file_data, rescan_info,
                   not_found_ranges,
                   improvements_made, todo, range_i, window, calls, logVars>>

\* process_not_found_segments is called, lines 343-356: the read and the
\* gap finder; the sort of the gap finder raises on a malformed key
StartGapMerge ==
    /\ pc = "idle"
    /\ LET fd == read_result_file(disk)
       IN  /\ file_data' = fd
           /\ IF \E k \in DOMAIN fd.segments : ~WellFormedTimestamp(k)
              THEN /\ pc' = "raised"
                   /\ exc' = "ValueError"
                   /\ UNCHANGED <<ret, not_found_ranges, range_i>>
              ELSE LET ranges == find_consecutive_not_found_ranges(
                                     fd.segments, DefaultMinConsecutive)
                   IN  /\ not_found_ranges' = ranges
                       /\ exc' = exc
                       /\ IF ranges = <<>>
                          THEN pc' = "done" /\ ret' = "False"
                                   /\ range_i' = range_i
                          ELSE pc' = "gap_window" /\ ret' = ret
                                   /\ range_i' = 1
    /\ improvements_made' = FALSE
    /\ window' = FirstWindow
    /\ calls' = <<>>
    /\ UNCHANGED <<disk, inputVars, callVars, valVars, rescan_info, retry_count, todo,
                   logVars>>

\* the range the pass is at and its NOT_FOUND timestamps
CurrentRange == not_found_ranges[range_i]
CurrentTimestamps ==
    RangeTimestamps(file_data.segments, CurrentRange[1], CurrentRange[2])

\* the pass goes on after the search of a range ended
NextRange ==
    /\ window' = FirstWindow
    /\ IF range_i < Len(not_found_ranges)
       THEN range_i' = range_i + 1 /\ pc' = "gap_window"
       ELSE range_i' = range_i /\ pc' = "gap_finish"

\* the search goes on after a window that gave no track
AdvanceWindow ==
    LET n == Len(CurrentTimestamps)
        nw == NextWindow(window.window_size, window.start_idx, n)
    IN  IF nw.window_size > n THEN NextRange
        ELSE window' = nw /\ UNCHANGED <<range_i, pc>>

Tried(outcome) ==
    Append(calls, [range_i |-> range_i, window_size |-> window.window_size,
                   start_idx |-> window.start_idx, outcome |-> outcome])

\* one window of sliding_window_merge_recognition, lines 295-330, and on a
\* match the overwrite of process_not_found_segments, lines 365-371
SlidingWindow ==
    /\ pc = "gap_window"
    /\ LET rts == CurrentTimestamps
           window_start == rts[window.start_idx + 1]
           window_end == rts[window.start_idx + window.window_size]
           window_end_timestamp == WindowEndTimestamp(window_end)
       IN  IF window.window_size > Len(rts)
           THEN NextRange /\ UNCHANGED <<file_data, improvements_made, calls>>
           ELSE \/ \* create_extended_segment gave no file
                   /\ calls' = Tried("no_track")
                   /\ AdvanceWindow
                   /\ UNCHANGED <<file_data, improvements_made>>
                \/ \E result \in RecognizerResults :
                      IF result.status = "FOUND"
                      THEN /\ calls' = Tried("match")
                           /\ file_data' =
                                 [file_data EXCEPT !.segments =
                                     update_segments_with_found_track(
                                         @, window_start,
                                         window_end_timestamp, result.track)]
                           /\ improvements_made' = TRUE
                           /\ NextRange
                      ELSE /\ calls' = Tried("no_track")
                           /\ AdvanceWindow
                           /\ UNCHANGED <<file_data, improvements_made>>
    /\ UNCHANGED <<disk, exc, ret, inputVars, callVars, valVars, rescan_info,
                   not_found_ranges,
                   retry_count, todo, logVars>>

\* the end of the pass, lines 373-380: the log is written after a match
GapFinish ==
    /\ pc = "gap_finish"
    /\ IF improvements_made
       THEN LET w == write_result_file(disk, file_data.header,
                                       file_data.segments)
            IN  /\ disk' = w.file
                /\ exc' = w.raised
                /\ IF w.raised = "none"
                   THEN pc' = "done" /\ ret' = "True"
                   ELSE pc' = "raised" /\ ret' = ret
       ELSE pc' = "done" /\ ret' = "False" /\ UNCHANGED <<disk, exc>>
    /\ UNCHANGED <<inputVars, callVars, valVars, passVars, logVars>>

\* the invocation is over, by a return or by an exception; the file stays
\* for the next one
NextInvocation ==
    /\ pc \in {"done", "raised"}
    /\ pc' = "idle" /\ exc' = "none" /\ ret' = "none"
    /\ file_data' = NoFileData /\ rescan_info' = NoRescan
    /\ not_found_ranges' = <<>> /\ retry_count' = 0
    /\ improvements_made' = FALSE /\ todo' = <<>> /\ range_i' = 0
    /\ window' = FirstWindow /\ calls' = <<>>
    /\ UNCHANGED <<disk, inputVars, callVars, valVars, logVars>>

Next ==
    \/ StartRescan \/ RescanRound \/ RescanSegment \/ RescanWrite
    \/ StartGapMerge \/ SlidingWindow \/ GapFinish
    \/ NextInvocation

Spec == Init /\ [][Next]_vars

(***************************************************************************)
(* SpecMalformed: read_result_file and the sort of the gap finder over a   *)
(* log with one line more, whose timestamp field is not HH:MM:SS           *)
(***************************************************************************)
\* a timestamp field int() cannot read
MalformedTimestamp == "00:0x:10"

\* line put before line g of lines
InsertLine(lines, g, line) ==
    SubSeq(lines, 1, g - 1) \o <<line>> \o SubSeq(lines, g, Len(lines))

\* the log of es with a malformed line before line g of its Scan Log, or
\* with a malformed row at the end of its Tracklist
MalformedFiles(es, g) ==
    {File(FileLines(HeaderLine, PersistedTracklist(es, 1, 1),
                    InsertLine(PersistedScanLog(es, 0), g,
                               <<MalformedTimestamp, "NOT_FOUND">>))),
     File(FileLines(HeaderLine,
                    Append(PersistedTracklist(es, 1, 1),
                           <<PaddedNumber(Len(es) + 1), MalformedTimestamp,
                             "A", "B">>),
                    PersistedScanLog(es, 0)))}

InitMalformed ==
    /\ entries \in SeqsUpTo(PassEntries, MaxLines)
    /\ garbage_at \in 1..(Len(entries) + 1)
    /\ disk \in MalformedFiles(entries, garbage_at)
    /\ Idle

NextMalformed == Read \/ StartGapMerge

SpecMalformed == InitMalformed /\ [][NextMalformed]_vars

(***************************************************************************)
(* SpecValidate: validate_single_file and validate_wrong_versions over a   *)
(* persisted log                                                           *)
(***************************************************************************)
\* two versions of one track, as Shazam names them
VersionTracks == {<<"A", "B">>, <<"A", "B (VIP)">>}

ValEntries ==
    {[status |-> "NOT_FOUND", track |-> EmptyText]}
    \cup {[status |-> "FOUND", track |-> t] : t \in VersionTracks}
    \cup {[status |-> st, track |-> <<"A", "B">>] :
            st \in {"FOUND_MERGED", "VALIDATION_VALIDATED"}}

\* the thresholds the pass is run with
Thresholds == {1, DefaultThreshold}

InitValidate ==
    /\ entries \in SeqsUpTo(ValEntries, MaxValSegs)
    /\ garbage_at = 0
    /\ disk = PersistedFile(entries, 0)
    /\ Idle

\* validate_single_file, lines 198-222: the file is read and the candidates
\* are counted; with no candidate the wrong-version phase comes next
StartValidate ==
    /\ pc = "idle"
    /\ \E t \in Thresholds :
          /\ threshold' = t
          /\ candidates' = analyze_false_positive_candidates(disk, t)
    /\ file_data' = read_result_file(disk)
    /\ updated_segments' = file_data'.segments
    /\ cand_i' = 1
    /\ pc' = IF candidates' = <<>> THEN "wrong_versions" ELSE "validating"
    /\ UNCHANGED <<disk, exc, ret, inputVars, callVars, rescan_info, not_found_ranges,
                   retry_count, improvements_made, todo, range_i, window,
                   calls, logVars, last_result, wrong_versions, requests,
                   wv_tracklist, wv_pairs>>

\* the recognitions the pass is run with
PassRecognitions ==
    {r \in RecognizerResults : r.status \in {"FOUND", "NOT_FOUND"}}

\* one turn of the loop of lines 224-259: the candidate is validated with
\* the three extended segments and its entry of the map is updated
ValidateCandidate ==
    /\ pc = "validating"
    /\ cand_i <= Len(candidates)
    /\ \E left \in [ModeNames -> {NoEntry} \cup PassRecognitions] :
          \E r \in validate_segment_with_extended_audio(candidates[cand_i],
                                                        left) :
             /\ last_result' = r
             /\ updated_segments' = UpdateValidated(updated_segments, r)
    /\ cand_i' = cand_i + 1
    /\ UNCHANGED <<disk, pc, exc, ret, inputVars, callVars, passVars, logVars, threshold,
                   candidates, wrong_versions, requests, wv_tracklist,
                   wv_pairs>>

\* line 287: the map is written; an exception of the write leaves the pass
ValidateWrite ==
    /\ pc = "validating"
    /\ cand_i > Len(candidates)
    /\ LET w == write_result_file(disk, file_data.header, updated_segments)
       IN  /\ disk' = w.file
           /\ exc' = w.raised
           /\ pc' = IF w.raised = "none" THEN "wrong_versions" ELSE "validated"
    /\ UNCHANGED <<ret, inputVars, callVars, passVars, logVars, valVars>>

\* validate_wrong_versions, called at line 212 or 294; the pass ends with it
WrongVersions ==
    /\ pc = "wrong_versions"
    /\ LET data == read_result_file(disk)
           g == generate_tracklist_and_log(data.segments)
           tracklist_data == TracklistData(g.tracklist)
           detected_pairs == detect_wrong_version_pairs(tracklist_data)
       IN  IF g.raised # "none"
           THEN /\ exc' = g.raised
                /\ wrong_versions' = "raised"
                /\ UNCHANGED <<disk, requests, wv_tracklist, wv_pairs,
                               updated_segments>>
           ELSE IF Len(tracklist_data) < 2
           THEN /\ wrong_versions' = "returned"
                /\ wv_tracklist' = tracklist_data
                /\ UNCHANGED <<disk, exc, requests, wv_pairs,
                               updated_segments>>
           ELSE IF detected_pairs = <<>>
           THEN /\ wrong_versions' = "returned"
                /\ wv_tracklist' = tracklist_data
                /\ wv_pairs' = detected_pairs
                /\ UNCHANGED <<disk, exc, requests, updated_segments>>
           ELSE \E outcomes \in [DOMAIN detected_pairs -> ResolutionOutcomes] :
                   LET resolved ==
                           ResolvePairs(detected_pairs, 1, tracklist_data,
                               outcomes,
                               [segments |-> data.segments, requests |-> <<>>])
                       w == write_result_file(disk, data.header,
                                              resolved.segments)
                   IN  /\ disk' = w.file
                       /\ exc' = w.raised
                       /\ requests' = resolved.requests
                       /\ updated_segments' = resolved.segments
                       /\ wv_tracklist' = tracklist_data
                       /\ wv_pairs' = detected_pairs
                       /\ wrong_versions' =
                             IF w.raised = "none" THEN "returned" ELSE "raised"
    /\ pc' = "validated"
    /\ UNCHANGED <<ret, inputVars, callVars, passVars, logVars, threshold, candidates,
                   cand_i, last_result>>

NextValidate ==
    StartValidate \/ ValidateCandidate \/ ValidateWrite \/ WrongVersions

SpecValidate == InitValidate /\ [][NextValidate]_vars

(***************************************************************************)
(* SpecNoAudio: the validation pass when the audio file is missing or      *)
(* unreadable. AudioSegment.from_file raises inside create_extended_segment *)
(* (audioSegmentation.py line 99), its except returns "" (lines 111-116),   *)
(* and line 129 of the validation goes on to the next mode: no mode gets   *)
(* an extended segment.                                                    *)
(***************************************************************************)
\* what the three modes meet without the audio file
NoAudio == [m \in ModeNames |-> NoEntry]

\* one turn of the loop of lines 224-259 without the audio file
ValidateCandidateNoAudio ==
    /\ pc = "validating"
    /\ cand_i <= Len(candidates)
    /\ \E r \in validate_segment_with_extended_audio(candidates[cand_i],
                                                      NoAudio) :
          /\ last_result' = r
          /\ updated_segments' = UpdateValidated(updated_segments, r)
    /\ cand_i' = cand_i + 1
    /\ UNCHANGED <<disk, pc, exc, ret, inputVars, callVars, passVars, logVars,
                   threshold, candidates, wrong_versions, requests,
                   wv_tracklist, wv_pairs>>

NextNoAudio ==
    StartValidate \/ ValidateCandidateNoAudio \/ ValidateWrite \/ WrongVersions

SpecNoAudio == InitValidate /\ [][NextNoAudio]_vars

(***************************************************************************)
(* SpecClassify: validate_segment_with_extended_audio alone, applied to    *)
(* the candidate of a log of one segment with everything its three modes   *)
(* can meet                                                                *)
(***************************************************************************)
InitClassify ==
    /\ entries \in SeqsUpTo(ValEntries, 1)
    /\ garbage_at = 0
    /\ disk = PersistedFile(entries, 0)
    /\ Idle

Classify ==
    /\ pc = "idle"
    /\ candidates' = analyze_false_positive_candidates(disk, threshold)
    /\ candidates' # <<>>
    /\ cand_i' = 1
    /\ \E left \in [ModeNames -> ModeOutcomes] :
          last_result' \in
              validate_segment_with_extended_audio(candidates'[1], left)
    /\ pc' = "classified"
    /\ UNCHANGED <<disk, exc, ret, inputVars, callVars, file_data, rescan_info,
                   not_found_ranges, retry_count, improvements_made, todo,
                   range_i, window, calls, logVars, threshold,
                   updated_segments, wrong_versions, requests, wv_tracklist,
                   wv_pairs>>

NextClassify == Classify

SpecClassify == InitClassify /\ [][NextClassify]_vars

(***************************************************************************)
(* SpecDetect: detect_wrong_version_pairs alone, applied to the Tracklists *)
(* of distinct tracks                                                      *)
(***************************************************************************)
\* tracklist_data of a Tracklist that lists the tracks ts in this order
TracklistOf(ts) ==
    [i \in DOMAIN ts |->
        [timestamp |-> TimestampOf(i), artist |-> <<ts[i][1]>>,
         title |-> Tail(ts[i])]]

InitDetect ==
    /\ entries = <<>>
    /\ garbage_at = 0
    /\ disk = PersistedFile(entries, 0)
    /\ pc = "idle" /\ exc = "none" /\ ret = "none"
    /\ file_data = NoFileData /\ gen = NoGen /\ rescan_info = NoRescan
    /\ not_found_ranges = <<>> /\ min_consecutive = DefaultMinConsecutive
    /\ first = NoFile /\ retry_count = 0 /\ improvements_made = FALSE
    /\ todo = <<>> /\ range_i = 0 /\ window = FirstWindow /\ calls = <<>>
    /\ threshold = DefaultThreshold /\ candidates = <<>> /\ cand_i = 0
    /\ last_result = NoResult /\ updated_segments = <<>>
    /\ wrong_versions = "none" /\ requests = <<>>
    /\ attempt = 0 /\ attempts = <<>> /\ in_flight = 0 /\ invocations = <<>>
    /\ \E ts \in SeqsUpTo(DetectorTracks, MaxTracks) :
          /\ \A i, j \in DOMAIN ts : i # j => ts[i] # ts[j]
          /\ wv_tracklist = TracklistOf(ts)
    /\ wv_pairs = <<>>

\* detect_wrong_version_pairs(tracklist_data)
Detect ==
    /\ pc = "idle"
    /\ wv_pairs' = detect_wrong_version_pairs(wv_tracklist)
    /\ pc' = "detected"
    /\ UNCHANGED <<disk, exc, ret, inputVars, callVars, passVars, logVars, threshold,
                   candidates, cand_i, last_result, updated_segments,
                   wrong_versions, requests, wv_tracklist>>

NextDetect == Detect

SpecDetect == InitDetect /\ [][NextDetect]_vars

(***************************************************************************)
(* SpecArtist: get_primary_artist alone, applied to an artist and to the   *)
(* same artist with a collaborator credited after it. An artist is the     *)
(* sequence of its characters.                                             *)
(***************************************************************************)
\* the artists: "DJ Nova", "Ace", "Defeat" (a name with the letters of a
\* delimiter in it) and "Bo & Co" (two artists)
ArtistNames ==
    {<<"D", "J", " ", "N", "o", "v", "a">>,
     <<"A", "c", "e">>,
     <<"D", "e", "f", "e", "a", "t">>,
     <<"B", "o", " ", "&", " ", "C", "o">>}

\* the collaborators: "MC Flow", "Bo", "X"
Collaborators ==
    {<<"M", "C", " ", "F", "l", "o", "w">>,
     <<"B", "o">>,
     <<"X">>}

\* how a collaborator is credited: " feat. ", " feat ", " featuring ",
\* " Feat. ", " FEATURING ", " & ", " and ", " with "
Credits ==
    {<<" ", "f", "e", "a", "t", ".", " ">>,
     <<" ", "f", "e", "a", "t", " ">>,
     <<" ", "f", "e", "a", "t", "u", "r", "i", "n", "g", " ">>,
     <<" ", "F", "e", "a", "t", ".", " ">>,
     <<" ", "F", "E", "A", "T", "U", "R", "I", "N", "G", " ">>,
     <<" ", "&", " ">>,
     <<" ", "a", "n", "d", " ">>,
     <<" ", "w", "i", "t", "h", " ">>}

InitArtist ==
    /\ entries = <<>>
    /\ garbage_at = 0
    /\ disk = PersistedFile(entries, 0)
    /\ pc = "idle" /\ exc = "none" /\ ret = "none"
    /\ file_data = NoFileData /\ gen = NoGen /\ rescan_info = NoRescan
    /\ not_found_ranges = <<>> /\ min_consecutive = DefaultMinConsecutive
    /\ first = NoFile /\ retry_count = 0 /\ improvements_made = FALSE
    /\ todo = <<>> /\ range_i = 0 /\ window = FirstWindow /\ calls = <<>>
    /\ threshold = DefaultThreshold /\ candidates = <<>> /\ cand_i = 0
    /\ updated_segments = <<>> /\ wrong_versions = "none" /\ requests = <<>>
    /\ attempt = 0 /\ attempts = <<>> /\ in_flight = 0 /\ invocations = <<>>
    /\ wv_tracklist = <<>> /\ wv_pairs = <<>>
    /\ \E a \in ArtistNames, c \in Credits, b \in Collaborators :
          last_result = [artist |-> a, credited |-> a \o c \o b]

\* get_primary_artist(artist) for the artist alone and for the artist with
\* its collaborator
PrimaryArtist ==
    /\ pc = "idle"
    /\ wv_pairs' = <<[alone |-> get_primary_artist(last_result.artist),
                      credited |-> get_primary_artist(last_result.credited)]>>
    /\ pc' = "primary"
    /\ UNCHANGED <<disk, exc, ret, inputVars, callVars, passVars, logVars,
                   threshold, candidates, cand_i, last_result,
                   updated_segments, wrong_versions, requests, wv_tracklist>>

NextArtist == PrimaryArtist

SpecArtist == InitArtist /\ [][NextArtist]_vars

(***************************************************************************)
(* SpecScan: the first scan of a recording, process_downloads and          *)
(* process_audio_file of trackRecognition.py, with recognize_track of      *)
(* shazam/shazamApi.py attempt by attempt and the file written line by     *)
(* line                                                                    *)
(***************************************************************************)
\* core/constants.py, line 21
MAX_RETRIES == 3

\* how an attempt of shazam.recognize ends: data with a track, data without
\* one, asyncio.TimeoutError, another exception
AttemptOutcomes ==
    {[kind |-> "track", track |-> t] : t \in RecognizedTracks}
        \cup {[kind |-> k, track |-> EmptyText] :
                 k \in {"no track", "timeout", "exception"}}

\* the loop goes on with the next attempt
Retry == [status |-> "continue", track |-> EmptyText]
\* the loop is over and the function ends without a return statement
ReturnedNone == [status |-> "None", track |-> EmptyText]

\* the loop body letting the exception of the last attempt through
AttemptResultReraise(n, outcome) ==
    IF outcome.kind = "track"
    THEN [status |-> "FOUND", track |-> outcome.track]
    ELSE IF n < MAX_RETRIES - 1 THEN Retry
    ELSE IF outcome.kind = "no track"
    THEN [status |-> "NOT_FOUND", track |-> EmptyText]
    ELSE IF outcome.kind = "timeout"
    THEN [status |-> "TIMEOUT", track |-> EmptyText]
    ELSE Raised

\* the loop body giving the failure of the last attempt a text for a track
AttemptResultFailed(n, outcome) ==
    IF outcome.kind = "track"
    THEN [status |-> "FOUND", track |-> outcome.track]
    ELSE IF n < MAX_RETRIES - 1 THEN Retry
    ELSE IF outcome.kind = "no track"
    THEN [status |-> "NOT_FOUND", track |-> EmptyText]
    ELSE IF outcome.kind = "timeout"
    THEN [status |-> "TIMEOUT", track |-> EmptyText]
    ELSE [status |-> "ERROR", track |-> <<"Processing failed">>]

\* one turn of the loop of recognize_track, lines 18-62, for attempt n and
\* the outcome of shazam.recognize: what it returns, or Retry
AttemptResult(n, outcome) ==
    IF outcome.kind = "track"
    THEN [status |-> "FOUND", track |-> outcome.track]
    ELSE IF n < MAX_RETRIES - 1 THEN Retry
    ELSE IF outcome.kind = "no track"
    THEN [status |-> "NOT_FOUND", track |-> EmptyText]
    ELSE IF outcome.kind = "timeout"
    THEN [status |-> "TIMEOUT", track |-> EmptyText]
    ELSE [status |-> "ERROR", track |-> EmptyText]

\* asyncio.run gives control back with no call left behind
GoOnWithoutWaiting(n) == n

\* asyncio.run(recognize_track(...)) returns when the call has: the call is
\* no more in flight
RunReturned(n) == n - 1

\* the logs a scan finds at output_filename: none, or the log of a scan
\* before
ScannedLogs == SeqsUpTo(PassEntries, MaxScanned)

InitScan ==
    /\ entries \in ScannedLogs
    /\ garbage_at = 0
    /\ disk \in {NoFile, PersistedFile(entries, 0)}
    /\ disk = NoFile => entries = <<>>
    /\ Idle

\* process_downloads, lines 143-152, and the head of process_audio_file,
\* lines 25-51: the output file is created with its first line, the audio
\* file cut into segments
CreateOutput ==
    /\ pc = "idle"
    /\ disk' = File(<<HeaderLine, EmptyText>>)
    /\ file_data' = [header |-> HeaderLine, segments |-> <<>>]
    /\ \E n \in 0..MaxScanned : todo' = [i \in 1..n |-> i]
    /\ pc' = "scan"
    /\ UNCHANGED <<exc, ret, inputVars, valVars, logVars, callVars,
                   rescan_info, not_found_ranges, retry_count,
                   improvements_made, range_i, window, calls>>

\* line 69: asyncio.run(recognize_track(segment_path)) for the next segment
Call ==
    /\ pc = "scan"
    /\ todo # <<>>
    /\ pc' = "attempt"
    /\ attempt' = 0
    /\ attempts' = <<>>
    /\ in_flight' = in_flight + 1
    /\ UNCHANGED <<disk, exc, ret, inputVars, valVars, logVars, passVars,
                   invocations>>

\* one attempt of recognize_track, and after its return lines 70-89 of the
\* scan: the entry of the segment
Attempt ==
    /\ pc = "attempt"
    /\ \E outcome \in AttemptOutcomes :
          LET result == IF attempt < MAX_RETRIES
                        THEN AttemptResult(attempt, outcome)
                        ELSE ReturnedNone
              timestamp ==
                  format_timestamp(
                      (Head(todo) - 1) * (SEGMENT_LENGTH \div 1000))
          IN  /\ attempts' = IF attempt < MAX_RETRIES
                             THEN Append(attempts, outcome) ELSE attempts
              /\ IF result = Retry
                 THEN /\ attempt' = attempt + 1
                      /\ UNCHANGED <<pc, last_result, file_data, todo,
                                     in_flight>>
                 ELSE /\ last_result' = result
                      /\ in_flight' = RunReturned(in_flight)
                      /\ file_data' =
                            [file_data EXCEPT !.segments =
                                Put(@, timestamp,
                                    IF result.status \in {"None", "exception"}
                                    THEN [status |-> "ERROR",
                                          track |-> EmptyText]
                                    ELSE result)]
                      /\ todo' = Tail(todo)
                      /\ pc' = "scan"
                      /\ attempt' = attempt
    /\ UNCHANGED <<disk, exc, ret, inputVars, logVars, rescan_info,
                   not_found_ranges, retry_count, improvements_made, range_i,
                   window, calls, invocations, threshold, candidates, cand_i,
                   updated_segments, wrong_versions, requests, wv_tracklist,
                   wv_pairs>>

\* write_result_file, lines 216-219: the Tracklist and the Scan Log are
\* made, which may raise, and the file is opened for writing, empty
WriteOpen ==
    /\ pc = "scan"
    /\ todo = <<>>
    /\ gen' = generate_tracklist_and_log(file_data.segments)
    /\ exc' = gen'.raised
    /\ IF gen'.raised = "none"
       THEN pc' = "writing" /\ disk' = File(<<>>)
       ELSE pc' = "raised" /\ disk' = disk
    /\ UNCHANGED <<ret, inputVars, valVars, passVars, callVars, first,
                   min_consecutive>>

\* lines 220-229: the next line goes to the file; after the last one the
\* file is closed and the scan over
WriteLine ==
    /\ pc = "writing"
    /\ LET lines == FileLines(file_data.header, gen.tracklist, gen.scan_log)
           n == Len(disk.lines)
       IN  IF n < Len(lines)
           THEN disk' = File(Append(disk.lines, lines[n + 1])) /\ pc' = pc
           ELSE disk' = disk /\ pc' = "done"
    /\ UNCHANGED <<exc, ret, inputVars, valVars, passVars, callVars, logVars>>

\* the process is killed: what the file holds stays
Kill ==
    /\ pc \in {"scan", "attempt", "writing"}
    /\ pc' = "killed"
    /\ UNCHANGED <<disk, exc, ret, inputVars, valVars, passVars, callVars,
                   logVars>>

NextScan == CreateOutput \/ Call \/ Attempt \/ WriteOpen \/ WriteLine \/ Kill

SpecScan == InitScan /\ [][NextScan]_vars

(***************************************************************************)
(* SpecMaps: every producer of a segment map over a result file, one a run: *)
(* the first scan, the rescan, the gap-merge, the validation and the       *)
(* wrong-version pass                                                      *)
(***************************************************************************)
InitMaps ==
    /\ entries \in SeqsUpTo(PassEntries, MaxValSegs)
    /\ garbage_at = 0
    /\ disk = PersistedFile(entries, 0)
    /\ Idle

NextMaps ==
    \/ CreateOutput \/ Call \/ Attempt \/ WriteOpen \/ WriteLine
    \/ StartRescan \/ RescanRound \/ RescanSegment \/ RescanWrite
    \/ StartGapMerge \/ SlidingWindow \/ GapFinish
    \/ StartValidate \/ ValidateCandidate \/ ValidateWrite \/ WrongVersions

SpecMaps == InitMaps /\ [][NextMaps]_vars

(***************************************************************************)
(* SpecShared: rescan_timeouts_with_retry run by two processes on the same *)
(* result file, the steps of the one between the steps of the other        *)
(***************************************************************************)
Procs == {1, 2}

\* a process before its pass: the position, the locals of the pass, and
\* the map it last handed to write_result_file
NotStarted ==
    [pc |-> "idle", retry_count |-> 0, improvements_made |-> FALSE,
     file_data |-> NoFileData, todo |-> <<>>, written |-> <<>>]

InitShared ==
    /\ entries \in SeqsUpTo(PassEntries, MaxShared)
    /\ garbage_at = 0
    /\ disk = PersistedFile(entries, 0)
    /\ pc = "idle" /\ exc = "none" /\ ret = "none"
    /\ file_data = NoFileData /\ gen = NoGen /\ rescan_info = NoRescan
    /\ not_found_ranges = <<>> /\ min_consecutive = DefaultMinConsecutive
    /\ first = NoFile /\ retry_count = 0 /\ improvements_made = FALSE
    /\ todo = <<>> /\ range_i = 0 /\ window = FirstWindow /\ calls = <<>>
    /\ threshold = DefaultThreshold /\ candidates = <<>> /\ cand_i = 0
    /\ last_result = NoResult /\ updated_segments = <<>>
    /\ wrong_versions = "none" /\ requests = <<>>
    /\ wv_tracklist = <<>> /\ wv_pairs = <<>>
    /\ attempt = 0 /\ attempts = <<>> /\ in_flight = 0
    /\ invocations = [p \in Procs |-> NotStarted]

\* what the steps of a process leave alone
sharedVars ==
    <<pc, exc, ret, inputVars, valVars, passVars, logVars, attempt, attempts,
      in_flight>>

\* process p calls rescan_timeouts_with_retry, lines 165-166
SharedStart(p) ==
    /\ invocations[p].pc = "idle"
    /\ invocations' = [invocations EXCEPT ![p].pc = "rescan_round"]
    /\ UNCHANGED <<disk, sharedVars>>

\* the head of the loop, lines 168-189, in process p
SharedRound(p) ==
    /\ invocations[p].pc = "rescan_round"
    /\ LET own == invocations[p]
           info == analyze_result_file(disk)
       IN  IF own.retry_count >= DefaultMaxRetries
                 \/ info.rescan_segments = <<>>
           THEN invocations' = [invocations EXCEPT ![p].pc = "done"]
           ELSE \E n \in TmpFiles :
                   invocations' =
                      [invocations EXCEPT
                          ![p].pc = "rescan_segment",
                          ![p].file_data = read_result_file(disk),
                          ![p].todo = Visited(1, n, info.rescan_segments)]
    /\ UNCHANGED <<disk, sharedVars>>

\* one flagged segment, lines 196-217, in process p
SharedSegment(p) ==
    /\ invocations[p].pc = "rescan_segment"
    /\ invocations[p].todo # <<>>
    /\ LET own == invocations[p]
           timestamp ==
               format_timestamp(
                   (Head(own.todo) - 1) * (SEGMENT_LENGTH \div 1000))
       IN  \/ \E result \in RecognizerResults :
                invocations' =
                   [invocations EXCEPT
                       ![p].todo = Tail(own.todo),
                       ![p].file_data.segments =
                           RescanEntry(@, timestamp, result),
                       ![p].improvements_made =
                           IF result.status # "TIMEOUT" THEN TRUE ELSE @]
           \/ invocations' = [invocations EXCEPT ![p].todo = Tail(own.todo)]
    /\ UNCHANGED <<disk, sharedVars>>

\* the end of the round, lines 219-224, in process p: the log is written
\* over whatever the file holds
SharedWrite(p) ==
    /\ invocations[p].pc = "rescan_segment"
    /\ invocations[p].todo = <<>>
    /\ LET own == invocations[p]
           w == write_result_file(disk, own.file_data.header,
                                  own.file_data.segments)
       IN  /\ disk' = w.file
           /\ invocations' =
                 [invocations EXCEPT
                     ![p].written = own.file_data.segments,
                     ![p].pc = IF w.raised = "none" THEN "rescan_round"
                               ELSE "raised",
                     ![p].retry_count =
                         IF w.raised = "none" THEN @ + 1 ELSE @]
    /\ UNCHANGED sharedVars

NextShared ==
    \E p \in Procs :
       SharedStart(p) \/ SharedRound(p) \/ SharedSegment(p) \/ SharedWrite(p)

SpecShared == InitShared /\ [][NextShared]_vars

(***************************************************************************)
(* SpecPasses: the four passes, those of trackRecognition.py and those of  *)
(* trackValidation.py, over a result file that is there or is not          *)
(***************************************************************************)
InitPasses ==
    /\ entries \in SeqsUpTo(PassEntries, MaxValSegs)
                       \cup SeqsUpTo(ValEntries, MaxValSegs)
    /\ garbage_at = 0
    /\ disk \in {PersistedFile(entries, 0)}
                    \cup (IF entries = <<>> THEN {NoFile} ELSE {})
    /\ Idle

NextPasses ==
    \/ StartRescan \/ RescanRound \/ RescanSegment \/ RescanWrite
    \/ StartGapMerge \/ SlidingWindow \/ GapFinish
    \/ StartValidate \/ ValidateCandidate \/ ValidateWrite \/ WrongVersions
    \/ NextInvocation

SpecPasses == InitPasses /\ [][NextPasses]_vars

(***************************************************************************)
(* What the specification says of the log functions and of the passes      *)
(***************************************************************************)
\* the segment numbers of the lines of the log: line i is segment i
Flagged(es, i) == es[i].status \in {"TIMEOUT", "ERROR"}
Matched(es, i) == es[i].status \in MatchedKind

RECURSIVE FlaggedNumbers(_, _)
FlaggedNumbers(es, i) ==
    IF i > Len(es) THEN <<>>
    ELSE IF Flagged(es, i) THEN <<i>> \o FlaggedNumbers(es, i + 1)
    ELSE FlaggedNumbers(es, i + 1)

\* the (timestamp, track) entries of the Tracklist lines of a file
TracklistSection(f) ==
    LET at == CHOOSE k \in DOMAIN f.lines : f.lines[k] = TracklistMarker
        to == CHOOSE k \in DOMAIN f.lines : f.lines[k] = ScanLogMarker
        rows == SubSeq(f.lines, at + 1, to - 2)
    IN  [k \in DOMAIN rows |-> Tail(rows[k])]

\* the (timestamp, track) entries the matched segments of a map give: the
\* first segment of every track, by timestamp
RECURSIVE DerivedEntries(_, _, _)
DerivedEntries(timestamps, segments, seen) ==
    IF timestamps = <<>> THEN <<>>
    ELSE LET ts == Head(timestamps)
             d == segments[ts]
         IN  IF d.status \in MatchedKind /\ d.track \notin seen
             THEN <<(<<ts>> \o d.track)>>
                      \o DerivedEntries(Tail(timestamps), segments,
                                        seen \cup {d.track})
             ELSE DerivedEntries(Tail(timestamps), segments, seen)

DerivedTracklist(segments) ==
    DerivedEntries(SortedTimestamps(DOMAIN segments), segments, {})

\* C1: no corrective pass throws past its own boundary: whatever the log,
\* the Recognizer and the Segmenter do, the rescan pass and the gap-merge
\* pass return normally, their final write of the log included.
C1_NoPassThrows == exc = "none" /\ pc # "raised"

\* C2: round trip: writing a segment map, reading the file back and writing
\* what was read gives the file of the first write:
\* write(read(write(log))) = write(log).
C2_RoundTrip ==
    pc \in {"written", "read_back", "round_trip"}
        => /\ exc = "none"
           /\ pc = "round_trip" => disk = first

\* C3: after every write the Tracklist section of the file is consistent
\* with its Scan Log section: the tracklist derived from the Scan Log as it
\* is read back has the entries (timestamp and track), in the order, of the
\* Tracklist section of the same file.
C3_TracklistConsistent ==
    pc \in {"written", "round_trip"}
        => /\ exc = "none"
           /\ DerivedTracklist(read_result_file(disk).segments)
                  = TracklistSection(disk)

\* C4: the Tracklist holds a track if and only if a segment with that track
\* has status FOUND, FOUND_MERGED or VALIDATION_VALIDATED; the segments of
\* the other statuses give no entry.
C4_TracklistMembership ==
    pc = "generated"
        => /\ gen.raised = "none"
           /\ {SubSeq(gen.tracklist[k], 3, Len(gen.tracklist[k])) :
                   k \in DOMAIN gen.tracklist}
                  = {entries[i].track : i \in {j \in DOMAIN entries :
                                                  Matched(entries, j)}}

\* C5: Tracklist deduplication: no two entries of the generated Tracklist
\* have the same track, and the entries stand in ascending order of the
\* timestamp of the first matched occurrence of their track.
C5_TracklistDeduplicated ==
    pc = "generated"
        => /\ gen.raised = "none"
           /\ \A k, l \in DOMAIN gen.tracklist :
                 k < l =>
                    /\ Tail(Tail(gen.tracklist[k]))
                           # Tail(Tail(gen.tracklist[l]))
                    /\ parse_timestamp(gen.tracklist[k][2])
                           < parse_timestamp(gen.tracklist[l][2])
           /\ \A k \in DOMAIN gen.tracklist :
                 \E i \in ListedAt(entries) :
                    /\ gen.tracklist[k][2] = TimestampOf(i)
                    /\ Tail(Tail(gen.tracklist[k])) = entries[i].track

\* C6: analyzeForRescan returns exactly the segment numbers
\* floor(seconds / segment_length) + 1 of the Scan Log lines with status
\* TIMEOUT or ERROR; the lines of the Tracklist, the lines before the Scan
\* Log marker and the Scan Log lines of another status add no number and
\* hide no flagged line.
C6_AnalyzeExact ==
    pc = "analyzed"
        => rescan_info.rescan_segments = FlaggedNumbers(entries, 1)

\* C7: a line without " - " inside the Scan Log is skipped by read and by
\* analyzeForRescan without raising, and every well-formed Scan Log line
\* before and after it is still parsed into the result.
C7_MalformedLineSkipped ==
    garbage_at # 0
        => /\ pc = "read"
                => \A i \in DOMAIN entries :
                      /\ TimestampOf(i) \in DOMAIN file_data.segments
                      /\ file_data.segments[TimestampOf(i)].status
                             = entries[i].status
           /\ pc = "analyzed"
                => \A i \in DOMAIN entries :
                      Flagged(entries, i)
                          <=> \E k \in DOMAIN rescan_info.rescan_segments :
                                 rescan_info.rescan_segments[k] = i

\* the maximal runs of NOT_FOUND lines of a log, as (first, last) line
MaximalRuns(es) ==
    {r \in (DOMAIN es) \X (DOMAIN es) :
        /\ r[1] <= r[2]
        /\ \A i \in r[1]..r[2] : es[i].status = "NOT_FOUND"
        /\ r[1] = 1 \/ es[r[1] - 1].status # "NOT_FOUND"
        /\ r[2] = Len(es) \/ es[r[2] + 1].status # "NOT_FOUND"}

\* C8: run finding: the gap finder returns, in timestamp order, exactly the
\* maximal runs of adjacent NOT_FOUND segments of length min_consecutive or
\* more, each as (first timestamp, last timestamp, length); the runs do not
\* overlap, and a run that reaches the last segment is among them.
C8_RunFinding ==
    pc = "ranges"
        => /\ {not_found_ranges[k] : k \in DOMAIN not_found_ranges}
                  = {<<TimestampOf(r[1]), TimestampOf(r[2]), r[2] - r[1] + 1>> :
                        r \in {q \in MaximalRuns(entries) :
                                  q[2] - q[1] + 1 >= min_consecutive}}
           /\ \A k, l \in DOMAIN not_found_ranges :
                 k < l => parse_timestamp(not_found_ranges[k][2])
                              < parse_timestamp(not_found_ranges[l][1])

\* two runs are found, the second one reaches the last segment, and a
\* NOT_FOUND segment of a shorter run is in neither
C8_Witness ==
    /\ pc = "ranges"
    /\ Len(not_found_ranges) = 2
    /\ not_found_ranges[2][2] = TimestampOf(Len(entries))
    /\ \E i \in DOMAIN entries :
          /\ entries[i].status = "NOT_FOUND"
          /\ \A k \in DOMAIN not_found_ranges :
                ~(parse_timestamp(not_found_ranges[k][1])
                      <= parse_timestamp(TimestampOf(i))
                  /\ parse_timestamp(TimestampOf(i))
                      <= parse_timestamp(not_found_ranges[k][2]))

\* the windows of a run of n segments: a size from 3 to n and a start that
\* leaves room for the size
Windows(n) == {w \in (3..n) \X (0..n) : w[2] <= n - w[1]}

\* smaller size first, and for one size the smaller start first
Before(v, w) == v[1] < w[1] \/ (v[1] = w[1] /\ v[2] < w[2])

\* the calls of the pass for range r, in order
CallsOf(r) ==
    LET OfRange(c) == c.range_i = r
    IN  SelectSeq(calls, OfRange)

\* C9: sliding-window order: within one run the windows are tried by
\* increasing size from 3 and, for one size, by increasing start; the search
\* of the run stops at the first window the Recognizer matches: no call for
\* the run follows a match, and a matching window of size 3 is taken before
\* a matching window of a larger size.
C9_SlidingWindowOrder ==
    \A r \in DOMAIN not_found_ranges :
        LET cs == CallsOf(r)
            n == not_found_ranges[r][3]
        IN  /\ \A k \in DOMAIN cs :
                  LET w == <<cs[k].window_size, cs[k].start_idx>>
                  IN  /\ w \in Windows(n)
                      /\ Cardinality({v \in Windows(n) : Before(v, w)}) = k - 1
                      /\ cs[k].outcome = "match" => k = Len(cs)
            /\ (r < range_i \/ pc \in {"gap_finish", "done", "raised"})
                  => \/ cs # <<>> /\ cs[Len(cs)].outcome = "match"
                     \/ Len(cs) = Cardinality(Windows(n))

\* a run of 5 segments is matched at its first window of size 4, after the
\* three windows of size 3 gave no track, and the search of the run is over
\* with two windows of it untried
C9_Witness ==
    /\ pc = "gap_finish"
    /\ Len(not_found_ranges) = 1
    /\ not_found_ranges[1][3] = 5
    /\ Len(calls) = 4
    /\ \A k \in 1..3 : calls[k].outcome = "no_track"
    /\ calls[4] = [range_i |-> 1, window_size |-> 4, start_idx |-> 0,
                   outcome |-> "match"]

\* C10: gap-merge overwrite scope: when a window of a run is matched, the
\* segments of that window, and only they, become FOUND_MERGED with the
\* matched track; every other segment keeps what it had, so as many segments
\* are overwritten as the window has.
C10_OverwriteScope ==
    [][(pc = "gap_window" /\ Len(calls') > Len(calls)
            /\ calls'[Len(calls')].outcome = "match")
        => LET c == calls'[Len(calls')]
               rts == CurrentTimestamps
               won == {rts[k] : k \in (c.start_idx + 1)
                                          ..(c.start_idx + c.window_size)}
           IN  /\ \E t \in RecognizedTracks :
                     \A ts \in won :
                        file_data'.segments[ts]
                            = [status |-> "FOUND_MERGED", track |-> t]
               /\ \A ts \in DOMAIN file_data.segments \ won :
                     file_data'.segments[ts] = file_data.segments[ts]
               /\ Cardinality({ts \in DOMAIN file_data.segments :
                                  file_data'.segments[ts]
                                      # file_data.segments[ts]})
                      = c.window_size]_vars

(***************************************************************************)
(* What the specification says of the validation pass                      *)
(***************************************************************************)
\* the modes of a result whose extended segment was recognized, how many of
\* them were recognized as track t, and how many as another track than the
\* original
Recognized(r) ==
    {m \in DOMAIN r.extended_segments : r.extended_segments[m].status = "FOUND"}
TimesRecognized(r, t) ==
    Cardinality({m \in Recognized(r) : r.extended_segments[m].track = t})
TimesOther(r) ==
    Cardinality({m \in Recognized(r) :
                    r.extended_segments[m].track # r.original_track})
OtherTracks(r) ==
    {r.extended_segments[m].track : m \in Recognized(r)} \ {r.original_track}

\* the four rules as the specification words them: the third asks two
\* recognitions that agree on one track other than the original
StatusWithAgreement(r) ==
    IF Recognized(r) = {} THEN "NO_EXTENDED_RECOGNITION"
    ELSE IF TimesRecognized(r, r.original_track) >= 2 THEN "CONFIRMED_VALID"
    ELSE IF \E t \in OtherTracks(r) : TimesRecognized(r, t) >= 2
    THEN "LIKELY_FALSE_POSITIVE"
    ELSE "UNCERTAIN"

\* the four rules with the third asking two recognitions of tracks other
\* than the original, agreeing or not
StatusOfRules(r) ==
    IF Recognized(r) = {} THEN "NO_EXTENDED_RECOGNITION"
    ELSE IF TimesRecognized(r, r.original_track) >= 2 THEN "CONFIRMED_VALID"
    ELSE IF TimesOther(r) >= 2 THEN "LIKELY_FALSE_POSITIVE"
    ELSE "UNCERTAIN"

\* C11 as stated: the classification of every combination of the three
\* extended recognitions is the one of the four rules, two recognitions of
\* two different tracks other than the original giving UNCERTAIN
C11_ClassificationWithAgreement ==
    pc = "classified" =>
        last_result.validation_status = StatusWithAgreement(last_result)

\* C11 amended: the classification of every combination of the three
\* extended recognitions is the one of the four rules, first satisfied rule
\* winning, where two recognitions of tracks other than the original give
\* LIKELY_FALSE_POSITIVE whether or not the two agree
C11_Classification ==
    pc = "classified" =>
        last_result.validation_status = StatusOfRules(last_result)

\* two modes recognized two different tracks, neither the original
C11_Witness ==
    /\ pc = "classified"
    /\ Cardinality(OtherTracks(last_result)) = 2
    /\ TimesRecognized(last_result, last_result.original_track) = 0
    /\ last_result.validation_status = "LIKELY_FALSE_POSITIVE"

\* C13: the suggestion of a candidate classified LIKELY_FALSE_POSITIVE is a
\* track recognized as often as any other among the recognitions that differ
\* from the original, and it is X when two recognitions agree on another
\* track X
C13_SuggestedTrack ==
    (pc = "classified"
        /\ last_result.validation_status = "LIKELY_FALSE_POSITIVE") =>
        /\ last_result.suggested_track \in OtherTracks(last_result)
        /\ \A t \in OtherTracks(last_result) :
              /\ TimesRecognized(last_result, t)
                    <= TimesRecognized(last_result,
                                       last_result.suggested_track)
              /\ TimesRecognized(last_result, t) >= 2 =>
                    last_result.suggested_track = t

\* two modes agree on X and the third recognized another track than X and
\* the original
C13_Witness ==
    /\ pc = "classified"
    /\ last_result.validation_status = "LIKELY_FALSE_POSITIVE"
    /\ TimesRecognized(last_result, last_result.suggested_track) = 2
    /\ Cardinality(OtherTracks(last_result)) = 2

\* C12: a candidate with two or more extended recognitions equal to its
\* track is classified CONFIRMED_VALID and the segment of its first
\* occurrence has the status VALIDATION_VALIDATED in the map of the pass
C12_ConfirmedValid ==
    (last_result # NoResult
        /\ TimesRecognized(last_result, last_result.original_track) >= 2) =>
        /\ last_result.validation_status = "CONFIRMED_VALID"
        /\ last_result.timestamp \in DOMAIN updated_segments
        /\ updated_segments[last_result.timestamp].status
              = "VALIDATION_VALIDATED"

\* the segments of a log that count for a track: those with the track and
\* the status FOUND or VALIDATION_VALIDATED
CountedAt(es, t) ==
    {i \in DOMAIN es :
        es[i].status \in {"FOUND", "VALIDATION_VALIDATED"} /\ es[i].track = t}

\* the tracks that occur at most limit times among the counted segments
FewOccurrences(es, limit) ==
    {t \in {es[i].track : i \in DOMAIN es} :
        /\ CountedAt(es, t) # {}
        /\ Cardinality(CountedAt(es, t)) <= limit}

FirstAt(es, t) == CHOOSE i \in CountedAt(es, t) : \A j \in CountedAt(es, t) : i <= j

\* C14: the candidates are exactly the distinct tracks that occur at most
\* threshold times among the segments with status FOUND or
\* VALIDATION_VALIDATED, each with that count, ordered by count and then by
\* first timestamp
C14_CandidateSelection ==
    pc # "idle" =>
        /\ {candidates[k].track : k \in DOMAIN candidates}
              = FewOccurrences(entries, threshold)
        /\ Len(candidates) = Cardinality(FewOccurrences(entries, threshold))
        /\ \A k \in DOMAIN candidates :
              /\ candidates[k].count
                    = Cardinality(CountedAt(entries, candidates[k].track))
              /\ candidates[k].start_timestamp
                    = TimestampOf(FirstAt(entries, candidates[k].track))
        /\ \A k, l \in DOMAIN candidates :
              k < l =>
                 \/ candidates[k].count < candidates[l].count
                 \/ /\ candidates[k].count = candidates[l].count
                    /\ parse_timestamp(candidates[k].start_timestamp)
                          <= parse_timestamp(candidates[l].start_timestamp)

\* C15: when the pass is over, the segment of the candidate it validated
\* last has its original track text in the log read back from the file
C15_TrackKept ==
    (pc = "validated" /\ last_result # NoResult) =>
        LET back == read_result_file(disk).segments
        IN  /\ last_result.timestamp \in DOMAIN back
            /\ back[last_result.timestamp].track = last_result.original_track

\* C16: a validation pass that is over has run the wrong-version resolver,
\* with candidates or without
C16_ResolverFollows == pc = "validated" => wrong_versions # "none"

(***************************************************************************)
(* What the specification says of the wrong-version detector and resolver  *)
(***************************************************************************)
\* C17: every pair the detector reports is a pair (i, i + 1) of adjacent
\* entries of the Tracklist, and no pair is reported twice
C17_AdjacentPairsOnly ==
    pc = "detected" =>
        /\ \A k \in DOMAIN wv_pairs :
              /\ wv_pairs[k][1] \in 0..(Len(wv_tracklist) - 2)
              /\ wv_pairs[k][2] = wv_pairs[k][1] + 1
        /\ \A k, l \in DOMAIN wv_pairs :
              k # l => wv_pairs[k][1] # wv_pairs[l][1]

\* the first and the third entry are two versions of one track, the second
\* is another track, and the detector reported nothing
C17_Witness ==
    /\ pc = "detected"
    /\ Len(wv_tracklist) = 3
    /\ Detected(wv_tracklist[1], wv_tracklist[3]) # NoPair
    /\ Detected(wv_tracklist[1], wv_tracklist[2]) = NoPair
    /\ Detected(wv_tracklist[2], wv_tracklist[3]) = NoPair
    /\ wv_pairs = <<>>

\* the pairs of the Tracklist of the log the pass started from
ListedPairs == detect_wrong_version_pairs(
                   TracklistData(PersistedTracklist(entries, 1, 1)))

\* the two tracks of pair k of ListedPairs
PairTracks(k) ==
    LET listed == TracklistData(PersistedTracklist(entries, 1, 1))
    IN  {FullTrack(listed[ListedPairs[k][1] + 1]),
         FullTrack(listed[ListedPairs[k][2] + 1])}

\* the segments of pair k: matched-kind status and the track of a member
Gathered(k) ==
    {TimestampOf(i) : i \in {j \in DOMAIN entries :
        entries[j].status \in MatchedKind /\ entries[j].track \in PairTracks(k)}}

\* the resolver is over, after a validation that had no candidate to
\* reclassify, on a log whose Tracklist has a pair
ResolverOver ==
    /\ pc = "validated"
    /\ wrong_versions # "none"
    /\ candidates = <<>>
    /\ FewOccurrences(entries, threshold) = {}
    /\ ListedPairs # <<>>

\* the span of pair k was put to the Recognizer as request q
RequestOf(k, q) == q \in DOMAIN requests /\ requests[q].pair = k

\* C18: the span of every pair is put to the Recognizer, and when it is
\* matched, the gathered segments with the recognized track are
\* VALIDATION_VALIDATED, the other gathered segments are
\* VALIDATION_WRONG_VERSION, and nothing else of the map has changed
C18_ResolutionOnSuccess ==
    ResolverOver =>
        \A k \in DOMAIN ListedPairs :
           \E q \in DOMAIN requests :
              /\ RequestOf(k, q)
              /\ (Len(ListedPairs) = 1
                    /\ requests[q].resolution.status = "FOUND") =>
                    /\ DOMAIN updated_segments = DOMAIN SegmentsOf(entries)
                    /\ \A ts \in DOMAIN updated_segments :
                          /\ updated_segments[ts].track
                                = SegmentsOf(entries)[ts].track
                          /\ updated_segments[ts].status =
                                IF ts \notin Gathered(k)
                                THEN SegmentsOf(entries)[ts].status
                                ELSE IF updated_segments[ts].track
                                           = requests[q].resolution.track
                                THEN "VALIDATION_VALIDATED"
                                ELSE "VALIDATION_WRONG_VERSION"

\* C19: the span of every pair is put to the Recognizer whatever became of
\* the pairs before it, and when no span is matched the map is the one of
\* the log
C19_ResolutionOnFailure ==
    ResolverOver =>
        /\ \A k \in DOMAIN ListedPairs : \E q \in DOMAIN requests : RequestOf(k, q)
        /\ (\A q \in DOMAIN requests : requests[q].resolution.status # "FOUND")
              => updated_segments = SegmentsOf(entries)

\* C20: for every pair, the segments gathered are the matched-kind segments
\* with the track of a member, and the span put to the Recognizer goes from
\* the least to the greatest of their timestamps
C20_GatheredSpan ==
    ResolverOver =>
        \A k \in DOMAIN ListedPairs :
           \E q \in DOMAIN requests :
              /\ RequestOf(k, q)
              /\ requests[q].related_segments = SortedTimestamps(Gathered(k))
              /\ requests[q].start_timestamp
                    = SortedTimestamps(Gathered(k))[1]
              /\ requests[q].end_timestamp
                    = SortedTimestamps(Gathered(k))[Cardinality(Gathered(k))]

\* the three methods as the specification words them, for two tracks
TitleNorm(t) == normalize_track_title(Chars(Tail(t)))
ArtistNorm(t) == normalize_artist(Chars(<<t[1]>>))
TitlesAlike(a, b) ==
    AtLeastThreshold(calculate_fuzzy_similarity(TitleNorm(a), TitleNorm(b)))
PrimarySatisfied(a, b) ==
    /\ get_primary_artist(Chars(<<a[1]>>)) = get_primary_artist(Chars(<<b[1]>>))
    /\ TitlesAlike(a, b)
ArtistSatisfied(a, b) ==
    /\ AtLeastThreshold(calculate_fuzzy_similarity(ArtistNorm(a), ArtistNorm(b)))
    /\ TitlesAlike(a, b)
CombinedSatisfied(a, b) ==
    AtLeastThreshold(calculate_fuzzy_similarity(
        ArtistNorm(a) \o <<" ", "-", " ">> \o TitleNorm(a),
        ArtistNorm(b) \o <<" ", "-", " ">> \o TitleNorm(b)))

\* the methods every two tracks satisfy
Satisfied ==
    [a \in DetectorTracks |-> [b \in DetectorTracks |->
        [primary |-> PrimarySatisfied(a, b), artist |-> ArtistSatisfied(a, b),
         combined |-> CombinedSatisfied(a, b)]]]

\* the methods entries i and i + 1 of the Tracklist satisfy, i from 1
SatisfiedAt(i) ==
    Satisfied[FullTrack(wv_tracklist[i])][FullTrack(wv_tracklist[i + 1])]
PrimaryMethod(i) == SatisfiedAt(i).primary
ArtistMethod(i) == SatisfiedAt(i).artist
CombinedMethod(i) == SatisfiedAt(i).combined

\* the tags reported for entries i and i + 1
TagsOf(i) ==
    {wv_pairs[k][3] : k \in {l \in DOMAIN wv_pairs : wv_pairs[l][1] = i - 1}}

\* C21: for every adjacent pair of different entries the tag reported is the
\* one of the first satisfied method of primary artist, full artist and
\* combined string, in this order, and a pair that satisfies none is not
\* reported
C21_FirstMethodWins ==
    pc = "detected" =>
        \A i \in 1..(Len(wv_tracklist) - 1) :
           TagsOf(i) =
              IF PrimaryMethod(i) THEN {"primary_artist_exact+track_fuzzy"}
              ELSE IF ArtistMethod(i) THEN {"artist_fuzzy+track_fuzzy"}
              ELSE IF CombinedMethod(i) THEN {"combined_fuzzy"}
              ELSE {}

\* a Tracklist with a pair that satisfies all three methods and is reported
\* with the first, and a pair that satisfies the second and the third and
\* is reported with the second
C21_Witness ==
    /\ pc = "detected"
    /\ \E i \in 1..(Len(wv_tracklist) - 1) :
          /\ PrimaryMethod(i) /\ ArtistMethod(i) /\ CombinedMethod(i)
          /\ TagsOf(i) = {"primary_artist_exact+track_fuzzy"}
    /\ \E i \in 1..(Len(wv_tracklist) - 1) :
          /\ ~PrimaryMethod(i) /\ ArtistMethod(i) /\ CombinedMethod(i)
          /\ TagsOf(i) = {"artist_fuzzy+track_fuzzy"}

(***************************************************************************)
(* What the specification says of the rescan pass                          *)
(***************************************************************************)
\* a line of the file flags its segment TIMEOUT or ERROR
FlaggedOnDisk ==
    /\ disk.exists
    /\ \E k \in DOMAIN disk.lines :
          /\ Len(disk.lines[k]) >= 2
          /\ disk.lines[k][2] \in {"TIMEOUT", "ERROR"}

\* what the rescan pass has left to do at most: the rounds not yet begun,
\* each with its check, its segments and its write, and the rest of the
\* round it is in
RescanSteps ==
    LET round == Len(entries) + 2
        left == DefaultMaxRetries - retry_count
    IN  IF pc = "rescan_round" THEN left * round + 1
        ELSE IF pc = "rescan_segment" THEN (left - 1) * round + Len(todo) + 2
        ELSE 0

\* a step of the rescan pass: nearer to the end, within the rounds allowed,
\* and a round begun only with a segment flagged in the log
RescanStep ==
    /\ RescanSteps' < RescanSteps
    /\ RescanSteps' >= 0
    /\ retry_count' <= DefaultMaxRetries
    /\ (pc = "rescan_round" /\ ~FlaggedOnDisk) => pc' = "done"
    /\ (pc = "rescan_round" /\ pc' = "rescan_segment") =>
          (FlaggedOnDisk /\ retry_count < DefaultMaxRetries)

Rescanned(idx) ==
    /\ pc = "rescan_segment"
    /\ todo # <<>> /\ Head(todo) = idx
    /\ todo' = Tail(todo)

\* the entries of all segments but one are the same after the step
OthersKept(timestamp) ==
    /\ DOMAIN file_data'.segments = DOMAIN file_data.segments \cup {timestamp}
    /\ \A t \in DOMAIN file_data.segments \ {timestamp} :
          file_data'.segments[t] = file_data.segments[t]

\* what the claim says of the segment idx after the answer
RescanUpdate(idx) ==
    LET timestamp == TimestampOf(idx)
    IN  /\ last_result'.status \in {"FOUND", "NOT_FOUND", "ERROR"} =>
              /\ file_data'.segments[timestamp]
                    = [status |-> last_result'.status,
                       track |-> last_result'.track]
              /\ OthersKept(timestamp)
        /\ last_result'.status = "TIMEOUT" =>
              /\ file_data'.segments = file_data.segments
              /\ timestamp \in DOMAIN file_data.segments
              /\ file_data.segments[timestamp].status \in {"TIMEOUT", "ERROR"}

\* C23: in a rescan round the entry of a flagged segment for which the
\* Recognizer returns another status than TIMEOUT becomes the new status and
\* track, no other entry changing; on TIMEOUT the map is unchanged and the
\* segment is still flagged, so eligible for the next round
C23_RescanReplaces == [][\A idx \in 1..MaxSegs : Rescanned(idx) => RescanUpdate(idx)]_vars

\* a flagged segment was recognized as a track and its entry replaced
C23_Witness ==
    /\ pc = "rescan_segment"
    /\ last_result \in RecognizerResults
    /\ last_result.status = "FOUND"
    /\ \E t \in DOMAIN file_data.segments :
          /\ file_data.segments[t] = last_result
          /\ SegmentsOf(entries)[t].status \in {"TIMEOUT", "ERROR"}

\* the status of a segment in the map of the round is not the one the log
\* had when the round read it
StatusDiffers ==
    LET before == read_result_file(disk).segments
    IN  \E t \in DOMAIN file_data.segments :
           \/ t \notin DOMAIN before
           \/ file_data.segments[t].status # before[t].status

\* C24: what the rescan pass returns, improvements_made of line 227, is true
\* exactly when the status of a segment differs from its status before; a
\* round whose segments all end with the status they had leaves it false
C24_ReturnsImprovement ==
    (pc = "rescan_segment" /\ todo = <<>>) =>
        (improvements_made <=> StatusDiffers)

(***************************************************************************)
(* What the specification says of the Recognizer and of the write          *)
(***************************************************************************)
\* the status the loop gives for an attempt that brought no track
StatusOfFailure(outcome) ==
    IF outcome.kind = "no track" THEN "NOT_FOUND"
    ELSE IF outcome.kind = "timeout" THEN "TIMEOUT"
    ELSE "ERROR"

\* C25: a call of the Recognizer makes at most MAX_RETRIES attempts and none
\* after an attempt that brought track data; whatever the attempts bring,
\* it returns a status of FOUND, NOT_FOUND, TIMEOUT or ERROR with a track,
\* FOUND with the track of the data, the other three after MAX_RETRIES
\* attempts; it raises nothing
C25_RecognizerReturns ==
    /\ Len(attempts) <= MAX_RETRIES
    /\ \A i \in 1..(Len(attempts) - 1) : attempts[i].kind # "track"
    /\ pc = "attempt" => (attempt = Len(attempts) /\ attempt < MAX_RETRIES)
    /\ (pc = "scan" /\ attempts # <<>>) =>
          LET last == attempts[Len(attempts)]
          IN  /\ last_result.status
                    \in {"FOUND", "NOT_FOUND", "TIMEOUT", "ERROR"}
              /\ last.kind = "track" =>
                    last_result = [status |-> "FOUND", track |-> last.track]
              /\ last.kind # "track" =>
                    /\ Len(attempts) = MAX_RETRIES
                    /\ last_result = [status |-> StatusOfFailure(last),
                                      track |-> EmptyText]

\* a call returned a track at its third attempt, after a timeout and an
\* exception
C25_Witness ==
    /\ pc = "scan"
    /\ Len(attempts) = MAX_RETRIES
    /\ attempts[1].kind = "timeout"
    /\ attempts[2].kind = "exception"
    /\ attempts[3].kind = "track"
    /\ last_result.status = "FOUND"

\* the complete log of the segment map the pass holds
ProducedLog ==
    LET g == generate_tracklist_and_log(file_data.segments)
    IN  File(FileLines(file_data.header, g.tracklist, g.scan_log))

\* C26: at every point of a pass, its write and a kill included, the file is
\* the complete log from before the pass, or no file if there was none, or
\* the complete log the pass produced
C26_AtomicWrite ==
    \/ disk = NoFile /\ entries = <<>>
    \/ disk = PersistedFile(entries, 0)
    \/ disk = ProducedLog

\* C28: within a pass the calls of the Recognizer come strictly one after
\* the other: at most one call is in flight, and none when the pass goes
\* on to its next segment or to its write
C28_OneCallInFlight ==
    /\ in_flight \in {0, 1}
    /\ pc \in {"scan", "writing", "done", "raised"} => in_flight = 0
    /\ pc = "attempt" => in_flight = 1

\* the second call of a scan is in flight, the first one returned
C28_Witness ==
    /\ pc = "attempt"
    /\ in_flight = 1
    /\ Len(todo) = 1
    /\ DOMAIN file_data.segments = {TimestampOf(1)}

(***************************************************************************)
(* What the specification says of two processes on one file                *)
(***************************************************************************)
\* the complete log of a segment map over the segments of the file
LogOfMap(segments) ==
    PersistedFile([i \in 1..Len(entries) |-> segments[TimestampOf(i)]], 0)

\* the map of process p has a segment that is not as in the first log
Changed(p) ==
    \E t \in DOMAIN invocations[p].file_data.segments :
       invocations[p].file_data.segments[t] # SegmentsOf(entries)[t]

\* the file holds the log process p wrote, with a status change in segment
\* t that the map of process q, read before, does not have
Stale(p, q, t) ==
    /\ t \in DOMAIN invocations[p].written
    /\ invocations[p].written[t] # SegmentsOf(entries)[t]
    /\ disk = LogOfMap(invocations[p].written)
    /\ t \in DOMAIN invocations[q].file_data.segments
    /\ invocations[q].file_data.segments[t] = SegmentsOf(entries)[t]

\* process q writes its log
Writes(q) ==
    /\ invocations[q].pc = "rescan_segment"
    /\ invocations[q].todo = <<>>
    /\ invocations'[q].pc # "rescan_segment"

\* the write of process q puts the log of its map into the file
Persists(q) == disk' = LogOfMap(invocations[q].file_data.segments)

\* C27: nothing protects the file: a process that changed a status persists
\* it with its write, and the write of another process that read the log
\* before puts its own log, without the change, in the place of it
C27_LostUpdate == [][\A p, q \in Procs : \A t \in DOMAIN SegmentsOf(entries) : (Writes(q) /\ (Changed(q) \/ (p # q /\ Stale(p, q, t)))) => Persists(q)]_vars

\* a status change that a process persisted is gone from the file
LostUpdate ==
    \E p, q \in Procs : \E t \in DOMAIN SegmentsOf(entries) :
       /\ p # q
       /\ t \in DOMAIN invocations[p].written
       /\ invocations[p].written[t] # SegmentsOf(entries)[t]
       /\ invocations[p].pc # "raised"
       /\ t \in DOMAIN invocations[q].written
       /\ invocations[q].written[t] = SegmentsOf(entries)[t]
       /\ disk = LogOfMap(invocations[q].written)

(***************************************************************************)
(* What the specification says of the missing file and the missing audio   *)
(***************************************************************************)
\* a pass is where it has segments cut or recognized
AtCall == pc \in {"rescan_segment", "gap_window", "gap_finish", "validating"}

\* no pass has called the Recognizer or the Segmenter, none has raised, and
\* what was returned reports no improvement
NothingDone ==
    /\ ~AtCall
    /\ calls = <<>> /\ requests = <<>> /\ last_result = NoResult
    /\ exc = "none" /\ pc # "raised" /\ wrong_versions # "raised"
    /\ ret \in {"none", "False"} /\ ~improvements_made
    /\ updated_segments = <<>>

\* C29: with no result file, the rescan, the gap-merge, the validation and
\* the wrong-version pass call neither the Recognizer nor the Segmenter,
\* make no file, and return with no improvement reported
C29_MissingFile == [][~disk.exists => (~disk'.exists /\ NothingDone')]_vars

\* the validation and the wrong-version pass have returned, no file there
C29_Witness ==
    /\ ~disk.exists
    /\ pc = "validated"
    /\ wrong_versions = "returned"

(***************************************************************************)
(* What the specification says of a validation without the audio file      *)
(***************************************************************************)
\* the "timestamp - status" of the Scan Log lines of a file
ScanLogStatuses(f) ==
    LET at == CHOOSE k \in DOMAIN f.lines : f.lines[k] = ScanLogMarker
        rows == SubSeq(f.lines, at + 1, Len(f.lines))
    IN  [k \in DOMAIN rows |-> SubSeq(rows[k], 1, 2)]

\* the file has the statuses and the Tracklist of the log the pass began
\* with
LogKept ==
    /\ disk.exists
    /\ ScanLogStatuses(disk) = ScanLogStatuses(PersistedFile(entries, 0))
    /\ TracklistSection(disk) = TracklistSection(PersistedFile(entries, 0))

\* C30: with the audio file missing or unreadable, so that every Segmenter
\* request for an extended segment fails, the validation pass leaves the
\* result log as it was: no status of a segment changes, neither in the map
\* the pass keeps nor in the file, and the Tracklist after the pass is the
\* Tracklist before it.
C30_MissingAudio ==
    /\ LogKept
    /\ \A ts \in DOMAIN updated_segments :
          updated_segments[ts].status = SegmentsOf(entries)[ts].status

(***************************************************************************)
(* What the specification says of the runs of the gap-merge pass           *)
(***************************************************************************)
\* every run the gap finder gave has had a window tried, the runs in the
\* order of their timestamps
RunsAttempted ==
    /\ {calls[k].range_i : k \in DOMAIN calls} = DOMAIN not_found_ranges
    /\ \A i, j \in DOMAIN calls :
          i < j => calls[i].range_i <= calls[j].range_i

\* the Scan Log of file f has every segment of the map with its status
HoldsMap(f, segments) ==
    /\ f.exists
    /\ \A ts \in DOMAIN segments :
          \E k \in DOMAIN ScanLogStatuses(f) :
             ScanLogStatuses(f)[k] = <<ts, segments[ts].status>>

\* the step that ends the pass: every run was attempted, and what the
\* matches put into the map is in the file after it
GapEnd ==
    /\ RunsAttempted
    /\ improvements_made => HoldsMap(disk', file_data.segments)

\* C31: every run of the gap-merge pass is attempted, in timestamp order,
\* whatever the windows of the runs before it gave (no match, no merged
\* segment, a failed recognition), and the updates of the runs that
\* matched are written at the end of the pass.
C31_RunIsolation == [][pc = "gap_finish" => GapEnd]_vars

(***************************************************************************)
(* What the specification says of the segment maps                         *)
(***************************************************************************)
\* the statuses that denote no match
Unmatched == {"NOT_FOUND", "TIMEOUT", "ERROR"}

\* a map whose segments have a track only with a status that denotes a
\* match
TrackOnlyOnMatch(segments) ==
    \A ts \in DOMAIN segments :
       segments[ts].status \in Unmatched => segments[ts].track = EmptyText

PlainName(artist) ==
    /\ ReplaceAll(lower(artist), PrimaryDelimiters, <<",">>) = lower(artist)
    /\ \A i \in DOMAIN artist : artist[i] # ","

C34_WellFormedKeys ==
    /\ \A k \in DOMAIN file_data.segments : WellFormedTimestamp(k)
    /\ exc # "ValueError"

(***************************************************************************)
(* What the specification says of the frame of a rescan round              *)
(***************************************************************************)
\* the lines of the Scan Log of a file
ScanLogRows(f) ==
    LET at == CHOOSE k \in DOMAIN f.lines : f.lines[k] = ScanLogMarker
    IN  SubSeq(f.lines, at + 1, Len(f.lines))

\* the entry a line of the Scan Log stands for
EntryOfRow(row) ==
    [status |-> row[2],
     track |-> IF Len(row) >= 3 THEN SubSeq(row, 3, Len(row)) ELSE EmptyText]

\* the segment the round is about to hand to the Recognizer is flagged
\* TIMEOUT or ERROR in the log
CallsFlagged ==
    \E k \in DOMAIN ScanLogRows(disk) :
       /\ ScanLogRows(disk)[k][1] = TimestampOf(Head(todo))
       /\ ScanLogRows(disk)[k][2] \in {"TIMEOUT", "ERROR"}

\* the step that ends the round: every line of the log that was not
\* flagged is in the map handed to write_result_file as it is in the log,
\* and in the file after the step
UnflaggedKept ==
    \A k \in DOMAIN ScanLogRows(disk) :
       LET row == ScanLogRows(disk)[k]
       IN  row[2] \notin {"TIMEOUT", "ERROR"} =>
              /\ row[1] \in DOMAIN file_data.segments
              /\ file_data.segments[row[1]] = EntryOfRow(row)
              /\ \E j \in DOMAIN ScanLogRows(disk') :
                    ScanLogRows(disk')[j] = row

RescanFrame == IF todo # <<>> THEN CallsFlagged ELSE UnflaggedKept

C36_GapFrame ==
    pc \in {"gap_window", "gap_finish"}
        => \A i \in DOMAIN entries :
              (/\ entries[i].status # "NOT_FOUND"
               /\ TimestampOf(i) \in DOMAIN file_data.segments)
                  => file_data.segments[TimestampOf(i)] = entries[i]

(***************************************************************************)
(* What the specification says of the timestamps of the log                *)
(***************************************************************************)
\* the timestamps of the Scan Log lines of a file
ScanLogTimestamps(f) ==
    {ScanLogRows(f)[k][1] : k \in DOMAIN ScanLogRows(f)}

\* C37: the rescan, the gap-merge, the validation and the wrong-version
\* pass keep the set of segment timestamps: whatever the passes did, the
\* Scan Log of the file has exactly the timestamps of the log they began
\* with, no segment dropped and none added.
C37_TimestampsKept ==
    disk.exists =>
        ScanLogTimestamps(disk) = {TimestampOf(i) : i \in DOMAIN entries}

(***************************************************************************)
(* What the specification says of the Tracklist after a resolved pair      *)
(***************************************************************************)
\* the tracks the Tracklist of a file lists
ListedTracks(f) ==
    {SubSeq(TracklistSection(f)[k], 3, Len(TracklistSection(f)[k])) :
        k \in DOMAIN TracklistSection(f)}

\* C38: the Recognizer is asked about every detected pair, and when it
\* matches the span, the Tracklist of the rewritten log lists exactly one of
\* the two tracks of the pair: the recognized one stays, the other is gone.
C38_OneVersionListed ==
    ResolverOver =>
        \A k \in DOMAIN ListedPairs :
           \E q \in DOMAIN requests :
              /\ RequestOf(k, q)
              /\ requests[q].resolution.status = "FOUND" =>
                    /\ Cardinality(PairTracks(k) \cap ListedTracks(disk)) = 1
                    /\ requests[q].resolution.track \in PairTracks(k) =>
                          requests[q].resolution.track \in ListedTracks(disk)

(***************************************************************************)
(* What the specification says of the segments a validation changes        *)
(***************************************************************************)
\* the first occurrences of the candidates validated so far
ValidatedAt == {candidates[k].start_timestamp : k \in 1..(cand_i - 1)}

\* C39: once a candidate is validated, the segment of its first occurrence
\* has the status of the validation's result, and every other segment of the
\* map, the later occurrences of the track and the segments of other tracks,
\* is the one of the log: one segment changed for each candidate.
C39_OneSegmentPerCandidate ==
    (pc = "validating" /\ cand_i > 1) =>
        LET at == candidates[cand_i - 1].start_timestamp
        IN  /\ at \in DOMAIN updated_segments
            /\ updated_segments[at].status
                  = StoredStatus(last_result.validation_status)
            /\ \A ts \in DOMAIN updated_segments \ ValidatedAt :
                  updated_segments[ts] = SegmentsOf(entries)[ts]

(***************************************************************************)
(* What the specification says of the order the pairs are resolved in      *)
(***************************************************************************)
\* the segments request q set to VALIDATION_WRONG_VERSION
SetWrongBy(q) ==
    IF requests[q].resolution.status # "FOUND" THEN {}
    ELSE {requests[q].related_segments[i] :
             i \in {j \in DOMAIN requests[q].related_segments :
                       SegmentsOf(entries)[requests[q].related_segments[j]].track
                           # requests[q].resolution.track}}

\* C40: the pairs detected from the log as read are resolved one after the
\* other in the order of the Tracklist, each on the map the pairs before it
\* left: a segment that one pair set to VALIDATION_WRONG_VERSION is not
\* among the segments gathered for a later pair and keeps that status to
\* the end of the pass.
C40_ResolvedInOrder ==
    ResolverOver =>
        /\ \A k \in DOMAIN ListedPairs :
              \E q \in DOMAIN requests : RequestOf(k, q)
        /\ \A q, r \in DOMAIN requests :
              q < r =>
                 /\ requests[q].pair < requests[r].pair
                 /\ \A ts \in SetWrongBy(q) :
                       /\ \A i \in DOMAIN requests[r].related_segments :
                             requests[r].related_segments[i] # ts
                       /\ updated_segments[ts].status
                             = "VALIDATION_WRONG_VERSION"

=============================================================================
